---------------------------- MODULE Spec2Model ----------------------------
(***************************************************************************)
(* A model of the speglar-gba simulation core: the packed tile grid        *)
(* (src/src/map.rs), the seeded xorshift generator (src/src/rng.rs), the   *)
(* procedural mirror placement (src/src/map/generation.rs), the bullet     *)
(* update (src/src/bullet.rs) and the tick orchestrator (src/src/main.rs). *)
(*                                                                         *)
(* Three specifications share the module:                                  *)
(*   SpecMap   from_raw followed by set / with / flip / flip_all calls     *)
(*   SpecGen   two successive calls of generate on the same arguments      *)
(*   SpecTick  update_logic: the player pass, then the bullet pass         *)
(***************************************************************************)
EXTENDS Integers, Naturals, Sequences, FiniteSets, TLC

VARIABLES
    \* ---- BaseMap under set / with / flip (SpecMap) ----
    grid,        \* the BaseMap being mutated: [data, spawns]
    prev,        \* the BaseMap before the last call
    lastOp,      \* the last call: [op, x, y, tile]
    nops,        \* number of calls made so far
    \* ---- generate (SpecGen) ----
    gargs,       \* the arguments of generate: [seed, base, min, max]
    gpc,         \* "call" | "loop" | "done" | "idle"
    rng,         \* Rng.cur_state, 64 bits
    num_mirrors, \* the loop counter of generate (u8)
    retvl,       \* the grid being generated
    ghist,       \* bookkeeping of the current call: [iters, odd], the passes made
    ncall,       \* which call of generate is running (1 or 2)
    first,       \* what the first call returned
    \* ---- update_logic (SpecTick) ----
    the_map,           \* GameState.map.data, read-only during the ticks
    players,           \* GameState.players
    bullets,           \* GameState.bullets
    local_player,      \* GameState.local_player
    controls,          \* ControlsRepr.dir sampled at the start of the tick
    tpc,               \* where update_logic is: [phase, idx]
    players_to_remove, \* the local list of update_logic
    bullets_to_remove, \* the local list of update_logic
    events,            \* the events returned by the bullet updates of the tick
    last,              \* the last entity update: [kind, idx, before, event]
    found,             \* pairs <<a, b>>: the update of bullet a ended on same-kind b
    nticks,            \* update_logic calls completed
    panicked,          \* an unwrap failed
    snapshot,          \* GameState.players as update_logic was entered
    trace,             \* the entity updates of the tick so far: <<kind, idx>>
    flight             \* per bullet, the cell it is over and the cell it left


mapVars == <<grid, prev, lastOp, nops>>
genVars == <<gargs, gpc, rng, num_mirrors, retvl, ghist, ncall, first>>
tickVars == <<the_map, players, bullets, local_player, controls, tpc, players_to_remove,
              bullets_to_remove, events, last, found, nticks, panicked, snapshot, trace,
              flight>>

-----------------------------------------------------------------------------
(* Bounds of the model *)

\* calls of set / with / flip / flip_all made after from_raw
MaxOps == 2
\* largest mirror count handed to generate
MaxMirrors == 4
\* update_logic calls made
MaxTicks == 2
\* calls of update_logic in a flight
MaxFlight == 4

\* passes of the loop of generate that are counted
MaxIters == 64

-----------------------------------------------------------------------------
(* Bytes and bit operations *)

RECURSIVE And8(_, _), Or8(_, _)
\* a & b on non-negative integers
And8(a, b) ==
    IF a = 0 \/ b = 0 THEN 0
    ELSE ((a % 2) * (b % 2)) + 2 * And8(a \div 2, b \div 2)

\* a | b on non-negative integers
Or8(a, b) ==
    IF a = 0 THEN b
    ELSE IF b = 0 THEN a
    ELSE (IF (a % 2) + (b % 2) > 0 THEN 1 ELSE 0) + 2 * Or8(a \div 2, b \div 2)

\* (a << n) kept to 8 bits, as a u8 shift does
Shl8(a, n) == (a * (2 ^ n)) % 256

-----------------------------------------------------------------------------
(* MapTile, src/src/map/tiles.rs *)

Empty == 0
Block == 1
UpMirror == 2
DownMirror == 3
HorizMirror == 4
VertMirror == 5
HorizPipe == 6
VertPipe == 7

MapTile == 0 .. 7

to_u8(tile) == tile

from_u8(raw) == And8(raw, 7)

flipped_tile(tile) ==
    CASE tile = DownMirror -> UpMirror
      [] tile = UpMirror -> DownMirror
      [] OTHER -> tile

\* a rule that lets players stand in pipes
allows_player_in_pipes(tile) == tile # Block

allows_player(tile) == tile \in {Empty, UpMirror, DownMirror, HorizMirror, VertMirror}

-----------------------------------------------------------------------------
(* Map dimensions, src/src/map.rs *)

\* agb::display::WIDTH and HEIGHT, the screen size in pixels
WIDTH == 240
HEIGHT == 160

BUFFER_TILES == 1
TILE_SIZE == 8
MAP_BYTE_WIDTH == ((WIDTH \div TILE_SIZE) - 2 * BUFFER_TILES) \div 2
MAP_WIDTH == MAP_BYTE_WIDTH * 2
MAP_HEIGHT == (HEIGHT \div TILE_SIZE) - 2 * BUFFER_TILES

-----------------------------------------------------------------------------
(* BaseMap, src/src/map.rs *)

\* a from_raw that packs the tile at even x into the low nibble
from_raw_low_first(data, spawns) ==
    [data |-> [y \in 0 .. MAP_HEIGHT - 1 |->
                 [bx \in 0 .. MAP_BYTE_WIDTH - 1 |->
                    Or8(Or8(0, to_u8(data[y][2 * bx])),
                        Shl8(to_u8(data[y][2 * bx + 1]), 4))]],
     spawns |-> spawns]

\* data[y][x / 2] holds two tiles: the high nibble is the tile at even x
from_raw(data, spawns) ==
    [data |-> [y \in 0 .. MAP_HEIGHT - 1 |->
                 [bx \in 0 .. MAP_BYTE_WIDTH - 1 |->
                    Or8(Or8(0, Shl8(to_u8(data[y][2 * bx]), 4)),
                        to_u8(data[y][2 * bx + 1]))]],
     spawns |-> spawns]

get(map, x, y) ==
    LET elm == map.data[y][x \div 2]
    IN  IF x % 2 = 0 THEN from_u8(elm \div 16) ELSE from_u8(elm)

\* a set that forgets to keep the other nibble of the byte
set_clobber(map, x, y, tile) ==
    LET mask == tile
        nelm == IF x % 2 = 0 THEN Shl8(mask, 4) ELSE mask
    IN  [map EXCEPT !.data[y][x \div 2] = nelm]

\* a set that writes the nibble of the wrong parity
set_swapped(map, x, y, tile) ==
    LET elm  == map.data[y][x \div 2]
        mask == tile
        nelm == IF x % 2 = 1 THEN Or8(Shl8(mask, 4), And8(elm, 15))
                             ELSE Or8(And8(elm, 240), mask)
    IN  [map EXCEPT !.data[y][x \div 2] = nelm]

set(map, x, y, tile) ==
    LET elm  == map.data[y][x \div 2]
        mask == tile
        nelm == IF x % 2 = 0 THEN Or8(Shl8(mask, 4), And8(elm, 15))
                             ELSE Or8(And8(elm, 240), mask)
    IN  [map EXCEPT !.data[y][x \div 2] = nelm]

with(map, x, y, tile) ==
    LET elm  == map.data[y][x \div 2]
        mask == tile
        nelm == IF x % 2 = 0 THEN Or8(Shl8(mask, 4), And8(elm, 15))
                             ELSE Or8(And8(elm, 240), mask)
    IN  [map EXCEPT !.data[y][x \div 2] = nelm]

flip(map, x, y) == set(map, x, y, flipped_tile(get(map, x, y)))

\* flip_all calls set(x, y, get(x, y).flipped()) for x = 0 .. MAP_WIDTH - 1 and,
\* inside, y = 0 .. MAP_HEIGHT - 1.  A call reads and writes the one byte
\* data[y][x / 2], so each byte sees exactly two calls, the one for its even x
\* and then the one for its odd x; they are applied to the row in that order.
flip_all(map) ==
    [map EXCEPT !.data =
        [y \in 0 .. MAP_HEIGHT - 1 |->
            [bx \in 0 .. MAP_BYTE_WIDTH - 1 |->
                LET row0 == [data |-> [yy \in {y} |-> map.data[y]]]
                    row1 == set(row0, 2 * bx, y, flipped_tile(get(row0, 2 * bx, y)))
                    row2 == set(row1, 2 * bx + 1, y, flipped_tile(get(row1, 2 * bx + 1, y)))
                IN  row2.data[y][bx]]]]

-----------------------------------------------------------------------------
(* Base layouts, src/src/map/generation.rs *)

BLOCK_ROW == [x \in 0 .. MAP_WIDTH - 1 |-> Block]

EMPTY_ROW ==
    [x \in 0 .. MAP_WIDTH - 1 |->
        IF x = 0 \/ x = MAP_WIDTH - 1 THEN Block ELSE Empty]

RECURSIVE HoneyCols(_), HoneyRows(_)
\* the values xidx takes in the outer loop of HONEYCOMB_BASE
HoneyCols(xidx) ==
    IF xidx >= MAP_WIDTH THEN {}
    ELSE {xidx} \cup HoneyCols((IF xidx = MAP_WIDTH \div 2 - 2 THEN xidx + 1 ELSE xidx) + 2)

\* the values yidx takes in the inner loop of HONEYCOMB_BASE
HoneyRows(yidx) ==
    IF yidx >= MAP_HEIGHT THEN {}
    ELSE {yidx} \cup HoneyRows((IF yidx = MAP_HEIGHT \div 2 - 1 THEN yidx + 1 ELSE yidx) + 2)

HONEYCOMB_SPAWNS ==
    << <<1, 1>>, <<1, MAP_HEIGHT - 2>>, <<MAP_WIDTH - 2, 1>>, <<MAP_WIDTH - 2, MAP_HEIGHT - 2>> >>

\* the array retvl of HONEYCOMB_BASE when it is handed to from_raw
HONEYCOMB_TILES ==
    LET cols == HoneyCols(0)
        rows == HoneyRows(0)
        rows0 == [y \in 0 .. MAP_HEIGHT - 1 |->
                    IF y = 0 \/ y = MAP_HEIGHT - 1 THEN BLOCK_ROW ELSE EMPTY_ROW]
    IN  [y \in 0 .. MAP_HEIGHT - 1 |->
            [x \in 0 .. MAP_WIDTH - 1 |->
                IF x \in cols /\ y \in rows THEN Block ELSE rows0[y][x]]]

HONEYCOMB_BASE == from_raw(HONEYCOMB_TILES, HONEYCOMB_SPAWNS)

\* the assertion of verify_spawns
verify_spawns(map) ==
    \A sidx \in 1 .. Len(map.spawns) :
        get(map, map.spawns[sidx][1], map.spawns[sidx][2]) = Empty

\* a second literal layout handed to from_raw: the walled border around an
\* interior dotted with straight mirrors and pipes
MIXED_TILES ==
    [y \in 0 .. MAP_HEIGHT - 1 |->
        [x \in 0 .. MAP_WIDTH - 1 |->
            IF y = 0 \/ y = MAP_HEIGHT - 1 \/ x = 0 \/ x = MAP_WIDTH - 1
            THEN Block
            ELSE CASE x % 4 = 2 /\ y % 4 = 2 -> HorizPipe
                   [] x % 4 = 0 /\ y % 4 = 0 -> VertPipe
                   [] x % 4 = 2 /\ y % 4 = 0 -> HorizMirror
                   [] x % 4 = 0 /\ y % 4 = 2 -> VertMirror
                   [] x % 8 = 5 /\ y % 4 = 3 -> Block
                   [] OTHER -> Empty]]

MIXED_BASE == from_raw(MIXED_TILES, HONEYCOMB_SPAWNS)

-----------------------------------------------------------------------------
(* Rng, src/src/rng.rs.  A u64 is kept as four 16-bit words, lowest first. *)

Word == 65536

\* the u64 whose 16-bit words are w3 (highest) .. w0 (lowest)
U64(w3, w2, w1, w0) == <<w0, w1, w2, w3>>

RECURSIVE Xor16(_, _)
\* a ^ b on non-negative integers
Xor16(a, b) ==
    IF a = 0 THEN b
    ELSE IF b = 0 THEN a
    ELSE ((a + b) % 2) + 2 * Xor16(a \div 2, b \div 2)

\* word j of v, zero outside the 64 bits
WordOf(v, j) == IF j >= 1 /\ j <= 4 THEN v[j] ELSE 0

\* v << n on 64 bits, the bits shifted out at the top dropped
Shl64(v, n) ==
    LET q == n \div 16
        r == n % 16
    IN  [j \in 1 .. 4 |->
            ((WordOf(v, j - q) * (2 ^ r)) % Word) + (WordOf(v, j - q - 1) \div (2 ^ (16 - r)))]

\* v >> n on 64 bits
Shr64(v, n) ==
    LET q == n \div 16
        r == n % 16
    IN  [j \in 1 .. 4 |->
            (WordOf(v, j + q) \div (2 ^ r)) + ((WordOf(v, j + q + 1) * (2 ^ (16 - r))) % Word)]

Xor64(a, b) == [j \in 1 .. 4 |-> Xor16(a[j], b[j])]

\* v % m for 0 < m < 2^15, word by word from the top
Mod64(v, m) ==
    LET r3 == v[4] % m
        r2 == (r3 * Word + v[3]) % m
        r1 == (r2 * Word + v[2]) % m
        r0 == (r1 * Word + v[1]) % m
    IN  r0

\* the functions above, as tuples: what a generator state is stored as
Norm64(v) == <<v[1], v[2], v[3], v[4]>>

\* a u64 of a small non-negative integer, and back
FromInt(n) == <<n % Word, n \div Word, 0, 0>>
ToInt(v) == v[1] + Word * v[2]

Zero64 == U64(0, 0, 0, 0)
One64 == U64(0, 0, 0, 1)
U64_MAX == U64(Word - 1, Word - 1, Word - 1, Word - 1)

\* a < b on u64
Lt64(a, b) ==
    \E j \in 1 .. 4 : a[j] < b[j] /\ \A k \in j + 1 .. 4 : a[k] = b[k]

\* the carry into word j of a + b
Carry(a, b, j) ==
    IF j = 1 THEN 0
    ELSE IF j = 2 THEN (a[1] + b[1]) \div Word
    ELSE IF j = 3 THEN (a[2] + b[2] + (a[1] + b[1]) \div Word) \div Word
    ELSE (a[3] + b[3] + (a[2] + b[2] + (a[1] + b[1]) \div Word) \div Word) \div Word

\* a.wrapping_add(b) on u64
Add64(a, b) == [j \in 1 .. 4 |-> (a[j] + b[j] + Carry(a, b, j)) % Word]
\* !a
Not64(a) == [j \in 1 .. 4 |-> Word - 1 - a[j]]
\* a.wrapping_sub(b) on u64: a + !b + 1
Sub64(a, b) == Norm64(Add64(Norm64(Add64(a, Norm64(Not64(b)))), One64))

\* bit i of v, bit 0 the lowest
Bit64(v, i) == (v[(i \div 16) + 1] \div (2 ^ (i % 16))) % 2

\* 2 * r + bit on 64 bits, the top bit of r dropped
Shl1(r, bit) ==
    <<((r[1] * 2) % Word) + bit,
      ((r[2] * 2) % Word) + (r[1] \div 32768),
      ((r[3] * 2) % Word) + (r[2] \div 32768),
      ((r[4] * 2) % Word) + (r[3] \div 32768)>>

\* s = 2 * r + bit reduced below m, r being below m
Reduce(s, dropped, m) == IF dropped = 1 \/ ~Lt64(s, m) THEN Sub64(s, m) ELSE s

RECURSIVE RemBits(_, _, _, _)
\* long division of v by m from bit i down, r being the remainder so far,
\* which stays below m
RemBits(v, m, i, r) ==
    IF i < 0 \/ ~Lt64(r, m) THEN r
    ELSE RemBits(v, m, i - 1, Reduce(Shl1(r, Bit64(v, i)), r[4] \div 32768, m))

\* v % m on u64, m not zero
Rem64(v, m) ==
    IF m[2] = 0 /\ m[3] = 0 /\ m[4] = 0 /\ m[1] < 32768
    THEN FromInt(Mod64(v, m[1]))
    ELSE RemBits(v, m, 63, Zero64)

\* retvl ^= retvl << 13
step_shl13(v) == Norm64(Xor64(v, Shl64(v, 13)))
\* retvl ^= retvl >> 7
step_shr7(v) == Norm64(Xor64(v, Shr64(v, 7)))
\* retvl ^= retvl << 17
step_shl17(v) == Norm64(Xor64(v, Shl64(v, 17)))

step(cur) == step_shl17(step_shr7(step_shl13(cur)))

with_seed(seed) == seed

\* every draw returns the advanced generator and the value drawn
drawn(next_state, val) == [rng |-> with_seed(next_state), val |-> val]

bool_of(next_state) == drawn(next_state, Mod64(next_state, 2) = 1)

bool_const(self) == bool_of(step(self))

\* let range = max - min + 1, for min <= max, as a build without overflow
\* checks computes it
u64_range(min, max) == Norm64(Add64(Sub64(max, min), One64))

\* the draw panics, for min <= max: max - min + 1 does not fit a u64, which a
\* build with overflow checks reports at the addition and a build without
\* them at the remainder, the divisor being zero
u64_const_panics(min, max) == u64_range(min, max) = Zero64

\* min + next_state % range
u64_of(next_state, min, max) ==
    drawn(next_state, Norm64(Add64(min, Rem64(next_state, u64_range(min, max)))))

u64_const(self, min, max) == u64_of(step(self), min, max)

\* base as u8
as_u8(d) == [rng |-> d.rng, val |-> d.val[1] % 256]

\* min and max are integers below 256, handed on as u64
u8_const(self, min, max) == as_u8(u64_const(self, FromInt(min), FromInt(max)))

\* base as usize: usize is 32 bits on the target
as_usize(d) == [rng |-> d.rng, val |-> <<d.val[1], d.val[2], 0, 0>>]

\* min and max are usize values, kept as the u64 they are handed on as
usize_const(self, min, max) == as_usize(u64_const(self, min, max))

I32_MAX == (2 ^ 30 - 1) * 2 + 1
I32_MIN == -I32_MAX - 1

\* a - b does not fit an i32
sub_overflows(a, b) == IF b < 0 THEN a > I32_MAX + b ELSE a < I32_MIN + b
\* a.wrapping_sub(b) on i32
wrapping_sub(a, b) ==
    IF ~sub_overflows(a, b) THEN a - b
    ELSE IF b < 0 THEN (a - I32_MAX - 1) - (b + I32_MAX + 1)
    ELSE (a + I32_MAX + 1) - (b - I32_MAX - 1)

\* a + b does not fit an i32
add_overflows(a, b) == IF b > 0 THEN a > I32_MAX - b ELSE a < I32_MIN - b
\* a.wrapping_add(b) on i32
wrapping_add(a, b) ==
    IF ~add_overflows(a, b) THEN a + b
    ELSE IF b > 0 THEN (a - I32_MAX - 1) + (b - I32_MAX - 1)
    ELSE (a + I32_MAX + 1) + (b + I32_MAX + 1)

\* n % d on i32 for n >= 0 and d # 0: the remainder has the sign of n
rem_i32(n, d) == IF d = I32_MIN THEN n ELSE IF d < 0 THEN n % (-d) ELSE n % d

\* (next_state & ((1 << 31) - 1)) as i32
low31(next_state) == (next_state[2] % 32768) * Word + next_state[1]

\* let range = max - min + 1, as a build without overflow checks computes it
i32_range(min, max) == wrapping_add(wrapping_sub(max, min), 1)

\* max - min + 1 overflows the i32 it is computed in
i32_const_overflows(min, max) ==
    sub_overflows(max, min) \/ add_overflows(wrapping_sub(max, min), 1)

\* the draw panics: at the overflow in a build with overflow checks, at the
\* remainder by zero in any build
i32_const_panics(min, max, overflow_checks) ==
    (overflow_checks /\ i32_const_overflows(min, max)) \/ i32_range(min, max) = 0

\* min + n % range
i32_of(next_state, min, max) ==
    drawn(next_state,
          wrapping_add(min, rem_i32(low31(next_state), i32_range(min, max))))

i32_const(self, min, max) == i32_of(step(self), min, max)

-----------------------------------------------------------------------------
(* Direction (crate::Direction) *)

Direction == {"Up", "Down", "Left", "Right"}

is_horizontal(dir) == dir \in {"Left", "Right"}
is_vertical(dir) == dir \in {"Up", "Down"}

flipped(dir) ==
    CASE dir = "Up" -> "Down"
      [] dir = "Down" -> "Up"
      [] dir = "Left" -> "Right"
      [] dir = "Right" -> "Left"

-----------------------------------------------------------------------------
(* generate, src/src/map/generation.rs *)

bullet_is_passable(tile, dir) ==
    CASE tile = Empty -> TRUE
      [] tile = Block -> FALSE
      [] tile = UpMirror -> TRUE
      [] tile = DownMirror -> TRUE
      [] tile = HorizMirror -> is_vertical(dir)
      [] tile = VertMirror -> is_horizontal(dir)
      [] tile = HorizPipe -> is_horizontal(dir)
      [] tile = VertPipe -> is_vertical(dir)

\* a match whose two diagonal arms have changed places
classify_crossed(u, d, l, r) ==
    CASE (u /\ ~d /\ l /\ ~r) \/ (~u /\ d /\ ~l /\ r) -> "Down"
      [] (u /\ ~d /\ ~l /\ r) \/ (~u /\ d /\ l /\ ~r) -> "Up"
      [] u /\ d /\ l /\ r -> "Coin"
      [] (u /\ d /\ l) \/ (u /\ d /\ r) \/ (u /\ l /\ r) \/ (d /\ l /\ r) -> "Coin"
      [] OTHER -> "Skip"

\* the match on (u, d, l, r): "Up", "Down", "Coin" or "Skip"
classify(u, d, l, r) ==
    CASE (u /\ ~d /\ l /\ ~r) \/ (~u /\ d /\ ~l /\ r) -> "Up"
      [] (u /\ ~d /\ ~l /\ r) \/ (~u /\ d /\ l /\ ~r) -> "Down"
      [] u /\ d /\ l /\ r -> "Coin"
      [] (u /\ d /\ l) \/ (u /\ d /\ r) \/ (u /\ l /\ r) \/ (d /\ l /\ r) -> "Coin"
      [] OTHER -> "Skip"

\* flags that read the right flag from the cell on the right
flags_right_of(map, x, y) ==
    [u |-> bullet_is_passable(get(map, x, y - 1), "Up"),
     d |-> bullet_is_passable(get(map, x, y + 1), "Down"),
     l |-> bullet_is_passable(get(map, x - 1, y), "Left"),
     r |-> bullet_is_passable(get(map, x + 1, y), "Right")]

\* the four passability flags of the candidate (x, y), as the code reads them:
\* the right flag is read from the cell on the left
flags(map, x, y) ==
    [u |-> bullet_is_passable(get(map, x, y - 1), "Up"),
     d |-> bullet_is_passable(get(map, x, y + 1), "Down"),
     l |-> bullet_is_passable(get(map, x - 1, y), "Left"),
     r |-> bullet_is_passable(get(map, x - 1, y), "Right")]

\* the candidate of one pass: next_x, next_y and the generator after both draws
candidate(dx, dy) == [x |-> ToInt(dx.val), y |-> ToInt(dy.val), rng |-> dy.rng]

draw_y(dx) == candidate(dx, usize_const(dx.rng, FromInt(1), FromInt(MAP_HEIGHT - 2)))

draw_candidate(g) == draw_y(usize_const(g, FromInt(1), FromInt(MAP_WIDTH - 2)))

classify_flags(f) == classify(f.u, f.d, f.l, f.r)

\* what one pass leaves: the generator, the grid, the counter, and whether the
\* pass wrote the candidate cell
pass(g, map, k, cand, wrote) ==
    [rng |-> g, map |-> map, k |-> k, x |-> cand.x, y |-> cand.y, wrote |-> wrote]

\* a continue that counts the discarded candidate as a placed mirror
gen_continue_counting(cand, map, k) == pass(cand.rng, map, k - 1, cand, FALSE)

\* continue: the candidate is discarded, the counter is left alone
gen_continue(cand, map, k) == pass(cand.rng, map, k, cand, FALSE)

\* retvl = retvl.with(next_x, next_y, next_tile); num_mirrors -= 1
gen_write(g, cand, map, k, next_tile) ==
    pass(g, with(map, cand.x, cand.y, next_tile), k - 1, cand, TRUE)

\* the two arms that draw a coin
gen_coin(coin, cand, map, k) ==
    gen_write(coin.rng, cand, map, k, IF coin.val THEN UpMirror ELSE DownMirror)

\* the match on the four flags
gen_match(c, cand, map, k) ==
    CASE c = "Up" -> gen_write(cand.rng, cand, map, k, UpMirror)
      [] c = "Down" -> gen_write(cand.rng, cand, map, k, DownMirror)
      [] c = "Coin" -> gen_coin(bool_const(cand.rng), cand, map, k)
      [] OTHER -> gen_continue(cand, map, k)

\* a pass that goes to the match whatever the candidate cell holds
gen_pass_overwriting(cand, map, k) ==
    gen_match(classify_flags(flags(map, cand.x, cand.y)), cand, map, k)

\* the pass after the candidate is drawn: a non-Empty cell is discarded
gen_pass(cand, map, k) ==
    IF get(map, cand.x, cand.y) # Empty
    THEN gen_continue(cand, map, k)
    ELSE gen_match(classify_flags(flags(map, cand.x, cand.y)), cand, map, k)

\* one pass through the body of the while loop, from generator g, grid map and
\* counter k
gen_body(g, map, k) == gen_pass(draw_candidate(g), map, k)

\* an entry that seeds a generator kept between calls on the first call only
gen_entry_static ==
    u8_const(IF ncall = 1 THEN with_seed(gargs.seed) ELSE rng, gargs.min, gargs.max)

\* the entry of generate: the generator is built from the seed argument and the
\* mirror count is its first draw
gen_entry == u8_const(with_seed(gargs.seed), gargs.min, gargs.max)

-----------------------------------------------------------------------------
(* Fixed-point numbers and geometry (crate::utils: N, VectType, RectType,  *)
(* Hitbox, RectExt).  A number is kept as its raw integer, ONE to a pixel.  *)

\* fractional bits of N
FRAC_BITS == 8
ONE == 2 ^ FRAC_BITS
MAX_FRAC_PORTION == ONE - 1

\* bit b below the integer boundary: 1 / 2^b of a pixel
n_from_bit(b) == 2 ^ (FRAC_BITS - b)
n_from_parts(int, frac) == int * ONE + frac
n_from_int(i) == i * ONE

\* integer division rounds toward zero
TruncDiv(a, b) == IF a >= 0 THEN a \div b ELSE -((-a) \div b)

Vec(x, y) == [x |-> x, y |-> y]
VecAdd(a, b) == [x |-> a.x + b.x, y |-> a.y + b.y]

\* y grows downwards: Up is towards row 0
scaled_vec(dir, n) ==
    CASE dir = "Up" -> Vec(0, -n)
      [] dir = "Down" -> Vec(0, n)
      [] dir = "Left" -> Vec(-n, 0)
      [] dir = "Right" -> Vec(n, 0)

\* the hitbox of an entity: the square of the given size centred on pos
hitbox_at(pos, size) ==
    [x |-> pos.x - TruncDiv(size.x, 2), y |-> pos.y - TruncDiv(size.y, 2),
     w |-> size.x, h |-> size.y]

center(r) == Vec(r.x + TruncDiv(r.w, 2), r.y + TruncDiv(r.h, 2))
tl(r) == Vec(r.x, r.y)
tr(r) == Vec(r.x + r.w, r.y)
bl(r) == Vec(r.x, r.y + r.h)
br(r) == Vec(r.x + r.w, r.y + r.h)

\* axis-aligned box overlap
rect_collides(a, b) ==
    /\ a.x < b.x + b.w
    /\ a.x + a.w > b.x
    /\ a.y < b.y + b.h
    /\ a.y + a.h > b.y

-----------------------------------------------------------------------------
(* Pixel and index coordinates, src/src/map.rs *)

None == <<>>

\* one coordinate of pixel_to_index: (pos / TILE_SIZE) - BUFFER_TILES, raw
index_raw(p) == TruncDiv(p, TILE_SIZE) - n_from_int(BUFFER_TILES)

pixel_to_index(pos) ==
    IF index_raw(pos.x) < 0 \/ index_raw(pos.y) < 0 THEN None
    ELSE IF index_raw(pos.x) \div ONE >= MAP_WIDTH \/ index_raw(pos.y) \div ONE >= MAP_HEIGHT
         THEN None
         ELSE <<index_raw(pos.x) \div ONE, index_raw(pos.y) \div ONE>>

index_to_pixel(idx) ==
    Vec(n_from_int(idx[1] + BUFFER_TILES) * TILE_SIZE,
        n_from_int(idx[2] + BUFFER_TILES) * TILE_SIZE)

\* a lookup that takes what lies off the map for wall
tile_or_wall(m, opt) == IF opt = None THEN Block ELSE get(m, opt[1], opt[2])

\* opt.map_or(MapTile::Empty, |(x, y)| self.get(x, y))
tile_or_empty(m, opt) == IF opt = None THEN Empty ELSE get(m, opt[1], opt[2])

tile_at_pixel(m, pos) == tile_or_empty(m, pixel_to_index(pos))

\* the tiles under the four corners of hbox, as a set: the caller only asks
\* whether some tile among them disallows players
tiles_intersecting(m, hbox) ==
    { tile_or_empty(m, pixel_to_index(c)) : c \in {tl(hbox), tr(hbox), bl(hbox), br(hbox)} }

-----------------------------------------------------------------------------
(* Bullet, src/src/bullet.rs *)

BulletTag == {"NoPlayer", "Player1", "Player2", "Player3", "Player4"}
PlayerTag == {"P1", "P2", "P3", "P4"}
BulletType == {"Bullet", "Reflector"}

\* a matches_player with the last two arms crossed
matches_player_crossed(self, player) ==
    <<self, player>> \in { <<"Player1", "P1">>, <<"Player2", "P2">>,
                           <<"Player3", "P4">>, <<"Player4", "P3">> }

matches_player(self, player) ==
    <<self, player>> \in { <<"Player1", "P1">>, <<"Player2", "P2">>,
                           <<"Player3", "P3">>, <<"Player4", "P4">> }

BULLET_SPEED == n_from_bit(5)
SHIELD_SPEED == n_from_bit(6)

speed(b) == IF b.kind = "Bullet" THEN BULLET_SPEED ELSE SHIELD_SPEED

bullet_size == Vec(n_from_int(4), n_from_int(4))
player_size == Vec(n_from_parts(7, ONE \div 2), n_from_parts(7, ONE \div 2))

bullet_hitbox(b) == hitbox_at(b.pos, bullet_size)
player_hitbox(p) == hitbox_at(p.pos, player_size)

KillPlayer(tag) == [ev |-> "KillPlayer", tag |-> tag, dir |-> "None"]
PushChargePlayer(tag, dir) == [ev |-> "PushChargePlayer", tag |-> tag, dir |-> dir]
NoEvent == [ev |-> "None", tag |-> "None", dir |-> "None"]

\* what Bullet::update leaves: the bullet, the event returned, and the index
\* of the same-kind bullet that ended the update (0 if none did)
updated(b, event, same) == [bullet |-> b, event |-> event, same |-> same]

\* self.pos += self.dir.scaled_vec(self.speed())
bullet_moved(b) == [b EXCEPT !.pos = VecAdd(b.pos, scaled_vec(b.dir, speed(b)))]

\* an UpMirror arm that sends Left to Up
up_mirror_dir_skewed(dir) ==
    CASE dir = "Right" -> "Up"
      [] dir = "Up" -> "Right"
      [] dir = "Down" -> "Left"
      [] dir = "Left" -> "Up"

up_mirror_dir(dir) ==
    CASE dir = "Right" -> "Up"
      [] dir = "Up" -> "Right"
      [] dir = "Down" -> "Left"
      [] dir = "Left" -> "Down"

down_mirror_dir(dir) ==
    CASE dir = "Right" -> "Down"
      [] dir = "Down" -> "Right"
      [] dir = "Up" -> "Left"
      [] dir = "Left" -> "Up"

\* a tile match whose pipe arms test the wrong axis
on_tile_pipes_swapped(b, tile) ==
    CASE tile = Block -> [b EXCEPT !.should_die = TRUE]
      [] tile = UpMirror -> [b EXCEPT !.dir = up_mirror_dir(b.dir)]
      [] tile = DownMirror -> [b EXCEPT !.dir = down_mirror_dir(b.dir)]
      [] tile = HorizMirror /\ is_vertical(b.dir) -> [b EXCEPT !.dir = flipped(b.dir)]
      [] tile = HorizMirror /\ ~is_vertical(b.dir) -> [b EXCEPT !.should_die = TRUE]
      [] tile = VertMirror /\ is_horizontal(b.dir) -> [b EXCEPT !.dir = flipped(b.dir)]
      [] tile = VertMirror /\ ~is_horizontal(b.dir) -> [b EXCEPT !.should_die = TRUE]
      [] tile = VertPipe /\ is_vertical(b.dir) -> [b EXCEPT !.should_die = TRUE]
      [] tile = HorizPipe /\ is_horizontal(b.dir) -> [b EXCEPT !.should_die = TRUE]
      [] OTHER -> b

\* a tile match whose straight mirrors let through what they do not turn round
on_tile_mirrors_pass(b, tile) ==
    CASE tile = Block -> [b EXCEPT !.should_die = TRUE]
      [] tile = UpMirror -> [b EXCEPT !.dir = up_mirror_dir(b.dir)]
      [] tile = DownMirror -> [b EXCEPT !.dir = down_mirror_dir(b.dir)]
      [] tile = HorizMirror /\ is_vertical(b.dir) -> [b EXCEPT !.dir = flipped(b.dir)]
      [] tile = VertMirror /\ is_horizontal(b.dir) -> [b EXCEPT !.dir = flipped(b.dir)]
      [] tile = VertPipe /\ is_horizontal(b.dir) -> [b EXCEPT !.should_die = TRUE]
      [] tile = HorizPipe /\ is_vertical(b.dir) -> [b EXCEPT !.should_die = TRUE]
      [] OTHER -> b

\* the match on the tile under the centre of the hitbox
on_tile(b, tile) ==
    CASE tile = Block -> [b EXCEPT !.should_die = TRUE]
      [] tile = UpMirror -> [b EXCEPT !.dir = up_mirror_dir(b.dir)]
      [] tile = DownMirror -> [b EXCEPT !.dir = down_mirror_dir(b.dir)]
      [] tile = HorizMirror /\ is_vertical(b.dir) -> [b EXCEPT !.dir = flipped(b.dir)]
      [] tile = HorizMirror /\ ~is_vertical(b.dir) -> [b EXCEPT !.should_die = TRUE]
      [] tile = VertMirror /\ is_horizontal(b.dir) -> [b EXCEPT !.dir = flipped(b.dir)]
      [] tile = VertMirror /\ ~is_horizontal(b.dir) -> [b EXCEPT !.should_die = TRUE]
      [] tile = VertPipe /\ is_horizontal(b.dir) -> [b EXCEPT !.should_die = TRUE]
      [] tile = HorizPipe /\ is_vertical(b.dir) -> [b EXCEPT !.should_die = TRUE]
      [] OTHER -> b

\* the end of the update: the tile test, and None is returned
tile_test(b, m) == updated(on_tile(b, tile_at_pixel(m, center(bullet_hitbox(b)))), NoEvent, 0)

\* the indices other_bullets_1.iter().chain(other_bullets_2.iter()) visits:
\* the bullets before idx, then the bullets after it
other_indices(n, idx) == [k \in 1 .. n - 1 |-> IF k < idx THEN k ELSE k + 1]

RECURSIVE bullet_scan(_, _, _, _, _)
\* the loop over the other bullets from the k-th of them on, then the tile test
bullet_scan(b, bs, order, k, m) ==
    IF k > Len(order) THEN tile_test(b, m)
    ELSE IF ~rect_collides(bullet_hitbox(b), bullet_hitbox(bs[order[k]]))
         THEN bullet_scan(b, bs, order, k + 1, m)
    ELSE IF b.kind = bs[order[k]].kind
         THEN updated([b EXCEPT !.should_die = TRUE], NoEvent, order[k])
    ELSE IF bs[order[k]].kind = "Reflector"
         THEN bullet_scan([b EXCEPT !.dir = flipped(b.dir)], bs, order, k + 1, m)
    ELSE bullet_scan(b, bs, order, k + 1, m)

RECURSIVE first_player_hit(_, _, _)
\* the first player from index i on whose hitbox the bullet's overlaps, or 0
first_player_hit(b, ps, i) ==
    IF i > Len(ps) THEN 0
    ELSE IF rect_collides(bullet_hitbox(b), player_hitbox(ps[i])) THEN i
    ELSE first_player_hit(b, ps, i + 1)

\* a body of the loop over the players in which a Reflector scores as well
on_player_any_kind(b, p) ==
    updated([b EXCEPT !.should_die = TRUE],
            IF matches_player(b.tag, p.tag) THEN PushChargePlayer(p.tag, b.dir)
            ELSE KillPlayer(p.tag),
            0)

\* the body of the loop over the players, on the first player that collides
on_player(b, p) ==
    updated([b EXCEPT !.should_die = TRUE],
            IF b.kind # "Bullet" THEN NoEvent
            ELSE IF matches_player(b.tag, p.tag) THEN PushChargePlayer(p.tag, b.dir)
            ELSE KillPlayer(p.tag),
            0)

after_move(b, ps, hit, bs, idx, m) ==
    IF hit > 0 THEN on_player(b, ps[hit])
    ELSE bullet_scan(b, bs, other_indices(Len(bs), idx), 1, m)

\* Bullet::update of bullets[idx], the other bullets being the rest of bs
bullet_update(bs, idx, ps, m) ==
    after_move(bullet_moved(bs[idx]), ps, first_player_hit(bullet_moved(bs[idx]), ps, 1),
               bs, idx, m)

-----------------------------------------------------------------------------
(* AlignedVec (crate::utils) and Player, src/src/player.rs *)

aligned(mag, dir) == [mag |-> mag, dir |-> dir]
zero(dir) == aligned(0, dir)
magnitude(v) == v.mag
vec_of(v) == scaled_vec(v.dir, v.mag)

\* mag moved towards target by amount, stopping at target
step_toward(mag, amount, target) ==
    IF mag > target
    THEN (IF mag - amount < target THEN target ELSE mag - amount)
    ELSE (IF mag + amount > target THEN target ELSE mag + amount)

step_to(v, decel, target) == aligned(step_toward(v.mag, decel, target), v.dir)

step_to_dir(v, accel, target) == aligned(step_toward(v.mag, accel, target.mag), target.dir)

SPEED == n_from_parts(1, 0)
FRICTION == n_from_parts(0, MAX_FRAC_PORTION \div 3)
OVERBOOST_FRICTION == n_from_parts(0, MAX_FRAC_PORTION \div 2)
ACCEL == n_from_parts(0, MAX_FRAC_PORTION \div 2)

speed_for(dir) == aligned(SPEED, dir)

\* Player::new
new_player(pos, tag) ==
    [pos |-> pos,
     dir |-> IF tag \in {"P1", "P3"} THEN "Right" ELSE "Left",
     vel |-> zero(IF tag \in {"P1", "P3"} THEN "Right" ELSE "Left"),
     charge |-> 0,
     tag |-> tag]

\* PlayerTag::from_u8(n): n & 0x3
tag_from_u8(n) ==
    CASE And8(n, 3) = 0 -> "P1"
      [] And8(n, 3) = 1 -> "P2"
      [] And8(n, 3) = 2 -> "P3"
      [] And8(n, 3) = 3 -> "P4"

\* the order of PlayerTag
tag_rank(tag) ==
    CASE tag = "P1" -> 0
      [] tag = "P2" -> 1
      [] tag = "P3" -> 2
      [] tag = "P4" -> 3

\* a step that never looks at the overboost: input accelerates at any speed
step_vel_accelerating(p, ctl) ==
    IF ctl = "None"
    THEN [p EXCEPT !.vel = step_to(p.vel, FRICTION, 0)]
    ELSE [p EXCEPT !.dir = ctl, !.vel = step_to_dir(p.vel, ACCEL, speed_for(ctl))]

\* controls.dir is "None" or a Direction
step_vel(p, ctl) ==
    IF magnitude(p.vel) > SPEED
    THEN [p EXCEPT !.vel = step_to(p.vel, OVERBOOST_FRICTION, 0),
                   !.dir = IF ctl = "None" THEN p.dir ELSE ctl]
    ELSE IF ctl = "None"
         THEN [p EXCEPT !.vel = step_to(p.vel, FRICTION, 0)]
         ELSE [p EXCEPT !.dir = ctl, !.vel = step_to_dir(p.vel, ACCEL, speed_for(ctl))]

next_pos_raw(q) == VecAdd(q.pos, vec_of(q.vel))

\* the coordinate across the facing direction is taken from the tile
snapped(q, raw, remapped) ==
    IF is_horizontal(q.dir) THEN Vec(raw.x, remapped.y) ELSE Vec(remapped.x, raw.y)

\* a test of the candidate that looks at the tiles only
move_collides_tiles_only(m, next_hitbox, ps, idx) ==
    \E tile \in tiles_intersecting(m, next_hitbox) : ~allows_player(tile)

\* the labelled block 'outer: a tile that disallows players, or another player
move_collides(m, next_hitbox, ps, idx) ==
    \/ \E tile \in tiles_intersecting(m, next_hitbox) : ~allows_player(tile)
    \/ \E j \in 1 .. Len(ps) : j # idx /\ rect_collides(next_hitbox, player_hitbox(ps[j]))

\* a commit that stops at the obstacle but keeps the speed
commit_keeps_speed(q, next_pos, collides) ==
    IF collides THEN q ELSE [q EXCEPT !.pos = next_pos]

commit(q, next_pos, collides) ==
    IF collides THEN [q EXCEPT !.vel = zero(q.dir)] ELSE [q EXCEPT !.pos = next_pos]

try_move(q, next_pos, m, ps, idx) ==
    commit(q, next_pos, move_collides(m, hitbox_at(next_pos, player_size), ps, idx))

\* q is the player after step_vel
update_stepped(q, m, ps, idx) ==
    try_move(q, snapped(q, next_pos_raw(q), index_to_pixel(pixel_to_index(next_pos_raw(q)))),
             m, ps, idx)

\* map.pixel_to_index(next_pos_raw).unwrap() fails
update_panics(ps, idx, ctl) == pixel_to_index(next_pos_raw(step_vel(ps[idx], ctl))) = None

\* Player::update of ps[idx], the other players being the rest of ps
player_update(ps, idx, ctl, m) == update_stepped(step_vel(ps[idx], ctl), m, ps, idx)

-----------------------------------------------------------------------------
(* GameState, src/src/main.rs *)

\* GameState::new: one player per spawn, tagged by its index
new_players(m) ==
    [pidx \in 1 .. Len(m.spawns) |->
        new_player(index_to_pixel(m.spawns[pidx]), tag_from_u8(pidx - 1))]

RECURSIVE binary_search(_, _, _, _)
\* players.binary_search_by_key(&tag, |p| p.tag) on ps[lo .. hi - 1]: the index
\* found, or 0
binary_search(ps, tag, lo, hi) ==
    IF lo >= hi THEN 0
    ELSE IF tag_rank(ps[(lo + hi) \div 2].tag) = tag_rank(tag) THEN (lo + hi) \div 2
    ELSE IF tag_rank(ps[(lo + hi) \div 2].tag) < tag_rank(tag)
         THEN binary_search(ps, tag, ((lo + hi) \div 2) + 1, hi)
         ELSE binary_search(ps, tag, lo, (lo + hi) \div 2)

\* the match on the event: a KillPlayer whose player is found is queued
kill_index(ps, event) ==
    IF event.ev = "KillPlayer" THEN binary_search(ps, event.tag, 1, Len(ps) + 1) ELSE 0

-----------------------------------------------------------------------------
(* SpecMap: a BaseMap built by from_raw and then changed by its own methods *)

\* the coordinates the calls are made on: both nibbles of the first byte of the
\* first row and both nibbles of the last byte of the last row
OpCells == { <<0, 0>>, <<1, 0>>,
             <<MAP_WIDTH - 2, MAP_HEIGHT - 1>>, <<MAP_WIDTH - 1, MAP_HEIGHT - 1>> }

NoOp == [op |-> "from_raw", x |-> 0, y |-> 0, tile |-> Empty]

genIdle ==
    /\ gargs = [seed |-> U64(0, 0, 0, 0), base |-> HONEYCOMB_BASE, min |-> 0, max |-> 0]
    /\ gpc = "idle"
    /\ rng = U64(0, 0, 0, 0)
    /\ num_mirrors = 0
    /\ retvl = HONEYCOMB_BASE
    /\ ghist = [iters |-> 0, odd |-> FALSE]
    /\ ncall = 0
    /\ first = HONEYCOMB_BASE

mapIdle ==
    /\ grid = HONEYCOMB_BASE
    /\ prev = HONEYCOMB_BASE
    /\ lastOp = NoOp
    /\ nops = 0

\* what the button controller can report as ControlsRepr.dir
ControlDirs == {"None"} \cup Direction

NoLast == [kind |-> "none", idx |-> 0, before |-> <<>>, event |-> NoEvent]

tickIdle ==
    /\ the_map = HONEYCOMB_BASE
    /\ players = <<>>
    /\ bullets = <<>>
    /\ local_player = "P1"
    /\ controls = "None"
    /\ tpc = [phase |-> "off", idx |-> 0]
    /\ players_to_remove = <<>>
    /\ bullets_to_remove = <<>>
    /\ events = <<>>
    /\ last = NoLast
    /\ found = {}
    /\ nticks = 0
    /\ panicked = FALSE
    /\ snapshot = <<>>
    /\ trace = <<>>
    /\ flight = <<>>

InitMap ==
    /\ grid \in {HONEYCOMB_BASE, MIXED_BASE}
    /\ prev = grid
    /\ lastOp = NoOp
    /\ nops = 0
    /\ genIdle
    /\ tickIdle

MapSet(x, y, tile) ==
    /\ nops < MaxOps
    /\ grid' = set(grid, x, y, tile)
    /\ prev' = grid
    /\ lastOp' = [op |-> "set", x |-> x, y |-> y, tile |-> tile]
    /\ nops' = nops + 1
    /\ UNCHANGED <<genVars, tickVars>>

MapWith(x, y, tile) ==
    /\ nops < MaxOps
    /\ grid' = with(grid, x, y, tile)
    /\ prev' = grid
    /\ lastOp' = [op |-> "with", x |-> x, y |-> y, tile |-> tile]
    /\ nops' = nops + 1
    /\ UNCHANGED <<genVars, tickVars>>

MapFlip(x, y) ==
    /\ nops < MaxOps
    /\ grid' = flip(grid, x, y)
    /\ prev' = grid
    /\ lastOp' = [op |-> "flip", x |-> x, y |-> y, tile |-> get(grid, x, y)]
    /\ nops' = nops + 1
    /\ UNCHANGED <<genVars, tickVars>>

MapFlipAll ==
    /\ nops < MaxOps
    /\ grid' = flip_all(grid)
    /\ prev' = grid
    /\ lastOp' = [op |-> "flip_all", x |-> 0, y |-> 0, tile |-> Empty]
    /\ nops' = nops + 1
    /\ UNCHANGED <<genVars, tickVars>>

NextMap ==
    \/ \E c \in OpCells, tile \in MapTile : MapSet(c[1], c[2], tile)
    \/ \E c \in OpCells, tile \in MapTile : MapWith(c[1], c[2], tile)
    \/ \E c \in OpCells : MapFlip(c[1], c[2])
    \/ MapFlipAll

-----------------------------------------------------------------------------
(* SpecGen: generate(seed, base, min_mirrors, max_mirrors), called twice *)

\* the seeds tried: 1, 2, 30 and 0xdeadbeef, the seed main_inner passes
Seeds == { U64(0, 0, 0, 1), U64(0, 0, 0, 2), U64(0, 0, 0, 30), U64(0, 0, 57005, 48879) }

Bases == {HONEYCOMB_BASE, MIXED_BASE}

\* the state before generate is called on the arguments gargs
genStart ==
    /\ gargs.min <= gargs.max
    /\ gpc = "call"
    /\ rng = U64(0, 0, 0, 0)
    /\ num_mirrors = 0
    /\ retvl = gargs.base
    /\ ghist = [iters |-> 0, odd |-> FALSE]
    /\ ncall = 1
    /\ first = gargs.base
    /\ mapIdle
    /\ tickIdle

\* SpecGenLive: generate on every seed, zero included, run to its end
InitGenLive ==
    /\ gargs \in [seed : Seeds \cup {U64(0, 0, 0, 0)}, base : Bases,
                   min : 0 .. MaxMirrors, max : 0 .. MaxMirrors]
    /\ genStart

InitGen ==
    /\ gargs \in [seed : Seeds, base : Bases, min : 0 .. MaxMirrors, max : 0 .. MaxMirrors]
    /\ gargs.min <= gargs.max
    /\ gpc = "call"
    /\ rng = U64(0, 0, 0, 0)
    /\ num_mirrors = 0
    /\ retvl = gargs.base
    /\ ghist = [iters |-> 0, odd |-> FALSE]
    /\ ncall = 1
    /\ first = gargs.base
    /\ mapIdle
    /\ tickIdle

\* let mut retvl = base; the generator is seeded and the mirror count drawn
GenEnter ==
    /\ gpc = "call"
    /\ retvl' = gargs.base
    /\ rng' = gen_entry.rng
    /\ num_mirrors' = gen_entry.val
    /\ gpc' = "loop"
    /\ ghist' = [iters |-> 0, odd |-> FALSE]
    /\ UNCHANGED <<gargs, ncall, first>>
    /\ UNCHANGED <<mapVars, tickVars>>

\* one pass through the body of while num_mirrors > 0
GenLoop ==
    /\ gpc = "loop"
    /\ num_mirrors > 0
    /\ LET b == gen_body(rng, retvl, num_mirrors)
       IN  /\ rng' = b.rng
           /\ retvl' = b.map
           /\ num_mirrors' = b.k
    /\ ghist' = [iters |-> IF ghist.iters < MaxIters THEN ghist.iters + 1 ELSE ghist.iters,
                 odd |-> ~ghist.odd]
    /\ UNCHANGED <<gargs, gpc, ncall, first>>
    /\ UNCHANGED <<mapVars, tickVars>>

\* the loop ends and generate returns retvl
GenReturn ==
    /\ gpc = "loop"
    /\ num_mirrors = 0
    /\ gpc' = "done"
    /\ first' = IF ncall = 1 THEN retvl ELSE first
    /\ UNCHANGED <<gargs, rng, num_mirrors, retvl, ghist, ncall>>
    /\ UNCHANGED <<mapVars, tickVars>>

\* the caller calls generate again with the same arguments
GenAgain ==
    /\ gpc = "done"
    /\ ncall = 1
    /\ ncall' = 2
    /\ gpc' = "call"
    /\ UNCHANGED <<gargs, rng, num_mirrors, retvl, ghist, first>>
    /\ UNCHANGED <<mapVars, tickVars>>

NextGen == GenEnter \/ GenLoop \/ GenReturn \/ GenAgain

\* SpecMatch: the match of generate on every tuple of flags, for an Empty
\* candidate of the grid

\* interior cells that are Empty in both layouts
MatchCells == { <<1, 1>>, <<3, 3>> }

FlagTuples == [u : BOOLEAN, d : BOOLEAN, l : BOOLEAN, r : BOOLEAN]

\* the pass has drawn its candidate gargs.cand and read the flags gargs.f
InitMatch ==
    /\ gargs \in [f : FlagTuples, base : Bases, k : 1 .. 2,
                   cand : { [x |-> c[1], y |-> c[2], rng |-> g] : c \in MatchCells, g \in Seeds }]
    /\ gpc = "match"
    /\ rng = gargs.cand.rng
    /\ num_mirrors = gargs.k
    /\ retvl = gargs.base
    /\ ghist = [iters |-> 0, odd |-> FALSE]
    /\ ncall = 1
    /\ first = gargs.base
    /\ mapIdle
    /\ tickIdle

\* let next_tile = match (u, d, l, r) { .. } and what follows it in the pass
MatchApply ==
    /\ gpc = "match"
    /\ \E p \in {gen_match(classify_flags(gargs.f), gargs.cand, retvl, num_mirrors)} :
          /\ rng' = p.rng
          /\ retvl' = p.map
          /\ num_mirrors' = p.k
    /\ gpc' = "matched"
    /\ UNCHANGED <<gargs, ghist, ncall, first>>
    /\ UNCHANGED <<mapVars, tickVars>>

NextMatch == MatchApply

\* SpecRng: one draw of each kind from a generator, over ranges that reach the
\* ends of the type drawn

\* generator states: the seeds of generate, the fixed point, all bits set, the
\* top bit alone
RngStates == Seeds \cup { Zero64, U64_MAX, U64(32768, 0, 0, 0) }

U32_MAX == U64(0, 0, Word - 1, Word - 1)

U8Ranges == { <<0, 0>>, <<0, 255>>, <<1, 4>>, <<3, 200>>, <<255, 255>> }
UsizeRanges ==
    { <<Zero64, Zero64>>, <<FromInt(1), FromInt(MAP_WIDTH - 2)>>, <<Zero64, U32_MAX>>,
      <<One64, U32_MAX>>, <<U32_MAX, U32_MAX>> }
U64Ranges ==
    { <<Zero64, FromInt(9)>>, <<FromInt(5), FromInt(5)>>, <<Zero64, U64(32768, 0, 0, 0)>>,
      <<One64, U64_MAX>>, <<Zero64, U64_MAX>>, <<U64_MAX, U64_MAX>> }
I32Ranges ==
    { <<0, 0>>, <<-5, 5>>, <<-1, 1>>, <<I32_MAX, I32_MAX>>, <<I32_MIN, I32_MIN>>,
      <<I32_MIN, -1>>, <<1, I32_MAX>>, <<0, I32_MAX>>, <<-1, I32_MAX>>, <<I32_MIN, 0>>,
      <<I32_MIN, I32_MAX>> }

\* the draws made: the function, its range, and for the i32 draw whether the
\* build checks for overflow
draw_of(fn, r, c) == [fn |-> fn, min |-> r[1], max |-> r[2], overflow_checks |-> c]
BoolDraws == { draw_of("bool_const", <<0, 0>>, TRUE) }
U8Draws == { draw_of("u8_const", r, TRUE) : r \in U8Ranges }
UsizeDraws == { draw_of("usize_const", r, TRUE) : r \in UsizeRanges }
U64Draws == { draw_of("u64_const", r, TRUE) : r \in U64Ranges }
I32Draws == { draw_of("i32_const", r, c) : r \in I32Ranges, c \in BOOLEAN }

\* a generator in the state gargs.self, about to make the draw gargs.draw
InitRng ==
    /\ \/ gargs \in [self : RngStates, draw : BoolDraws]
       \/ gargs \in [self : RngStates, draw : U8Draws]
       \/ gargs \in [self : RngStates, draw : UsizeDraws]
       \/ gargs \in [self : RngStates, draw : U64Draws]
       \/ gargs \in [self : RngStates, draw : I32Draws]
    /\ gpc = "draw"
    /\ rng = gargs.self
    /\ num_mirrors = 0
    /\ retvl = HONEYCOMB_BASE
    /\ ghist = [iters |-> 0, odd |-> FALSE]
    /\ ncall = 1
    /\ first = HONEYCOMB_BASE
    /\ mapIdle
    /\ tickIdle

\* the draw returned d: the caller holds the advanced generator and the value
RngReturn(d) ==
    /\ gpc' = "drawn"
    /\ rng' = d.rng
    /\ ghist' = [val |-> d.val]
    /\ UNCHANGED <<gargs, num_mirrors, retvl, ncall, first>>
    /\ UNCHANGED <<mapVars, tickVars>>

\* the draw panicked: nothing is returned
RngPanic ==
    /\ gpc' = "panic"
    /\ UNCHANGED <<gargs, rng, ghist, num_mirrors, retvl, ncall, first>>
    /\ UNCHANGED <<mapVars, tickVars>>

RngBool ==
    /\ gpc = "draw" /\ gargs.draw.fn = "bool_const"
    /\ RngReturn(bool_const(rng))

RngU8 ==
    /\ gpc = "draw" /\ gargs.draw.fn = "u8_const"
    /\ IF u64_const_panics(FromInt(gargs.draw.min), FromInt(gargs.draw.max))
       THEN RngPanic
       ELSE RngReturn(u8_const(rng, gargs.draw.min, gargs.draw.max))

RngUsize ==
    /\ gpc = "draw" /\ gargs.draw.fn = "usize_const"
    /\ IF u64_const_panics(gargs.draw.min, gargs.draw.max)
       THEN RngPanic
       ELSE RngReturn(usize_const(rng, gargs.draw.min, gargs.draw.max))

RngU64 ==
    /\ gpc = "draw" /\ gargs.draw.fn = "u64_const"
    /\ IF u64_const_panics(gargs.draw.min, gargs.draw.max)
       THEN RngPanic
       ELSE RngReturn(u64_const(rng, gargs.draw.min, gargs.draw.max))

RngI32 ==
    /\ gpc = "draw" /\ gargs.draw.fn = "i32_const"
    /\ IF i32_const_panics(gargs.draw.min, gargs.draw.max, gargs.draw.overflow_checks)
       THEN RngPanic
       ELSE RngReturn(i32_const(rng, gargs.draw.min, gargs.draw.max))

NextRng == RngBool \/ RngU8 \/ RngUsize \/ RngU64 \/ RngI32

-----------------------------------------------------------------------------
(* SpecTick: update_logic on a GameState made by GameState::new, with the  *)
(* bullets handed in from outside (nothing in the core pushes a bullet).   *)

\* the arena of the ticks: MIXED_BASE with one diagonal mirror of each kind
ARENA == with(with(MIXED_BASE, 3, 2, UpMirror), 3, 4, DownMirror)

\* the pixel at the middle of a tile
tile_middle(idx) ==
    VecAdd(index_to_pixel(idx), Vec(n_from_int(TILE_SIZE) \div 2, n_from_int(TILE_SIZE) \div 2))

\* one tile of each kind of ARENA
ProbeTiles == { <<1, 2>>, <<5, 3>>, <<3, 2>>, <<3, 4>>, <<2, 4>>, <<4, 2>>, <<2, 2>>, <<4, 4>> }

\* positions beside each player, close enough to touch it
PlayerProbes ==
    { VecAdd(index_to_pixel(HONEYCOMB_SPAWNS[i]), Vec(n_from_parts(5, 190), 0)) : i \in 1 .. 4 }

new_bullet(pos, dir, tag, kind) ==
    [pos |-> pos, dir |-> dir, tag |-> tag, kind |-> kind, should_die |-> FALSE]

\* one bullet alone, over every kind of tile or beside a player
SoloBullets ==
    { <<new_bullet(pos, dir, tag, kind)>> :
        pos \in {tile_middle(c) : c \in ProbeTiles} \cup PlayerProbes,
        dir \in Direction, tag \in BulletTag, kind \in BulletType }

\* offsets between bullets of a cluster: overlapping now, or only once the
\* first has moved
NearOffsets == { Vec(n_from_int(2), 0), Vec(n_from_parts(4, 4), 0) }

\* three bullets: the second beside the first, the third below it or far away
ClusterBullets ==
    { << new_bullet(tile_middle(c), da, "NoPlayer", ka),
         new_bullet(VecAdd(tile_middle(c), ob), db, "NoPlayer", kb),
         new_bullet(VecAdd(tile_middle(c), oc), "Down", "NoPlayer", kc) >> :
        c \in { <<1, 2>>, <<2, 2>>, <<3, 2>> },
        da \in Direction, ka \in BulletType,
        ob \in NearOffsets, db \in {"Right", "Up"}, kb \in BulletType,
        oc \in { Vec(0, n_from_int(2)), Vec(0, n_from_int(16)) }, kc \in BulletType }

\* the players of GameState::new with the one at index i standing at pos
placed(ps, i, pos) == [ps EXCEPT ![i].pos = pos]

\* where the players can be once the local player has walked off its spawn:
\* in the open; one step left of a VertPipe; one step left of the next player
WalkedLayouts ==
    { placed(new_players(ARENA), 1, index_to_pixel(<<2, 5>>)),
      placed(new_players(ARENA), 1, Vec(n_from_int(36), n_from_int(48))),
      placed(placed(new_players(ARENA), 1, index_to_pixel(<<2, 5>>)),
             2, Vec(n_from_parts(31, 3 * (ONE \div 4)), n_from_int(48))) }

\* one bullet in the way of the local player of WalkedLayouts
WalkBullets ==
    { <<new_bullet(tile_middle(<<2, 5>>), dir, "Player2", kind)>> :
        dir \in {"Left", "Up"}, kind \in BulletType }

\* two bullets beside the first player: one touching it, the other touching
\* that bullet only
CrowdBullets ==
    { << new_bullet(VecAdd(index_to_pixel(HONEYCOMB_SPAWNS[1]), Vec(n_from_parts(5, 190), 0)),
                    dir, tag, ka),
         new_bullet(VecAdd(index_to_pixel(HONEYCOMB_SPAWNS[1]), Vec(n_from_parts(7, 190), 0)),
                    "Up", "NoPlayer", kb) >> :
        dir \in {"Left", "Up"}, tag \in {"NoPlayer", "Player1"},
        ka \in BulletType, kb \in BulletType }

\* a GameState: the players and the bullets
TickScenarios ==
    ({new_players(ARENA)} \X (SoloBullets \cup ClusterBullets \cup CrowdBullets \cup {<<>>}))
    \cup (WalkedLayouts \X ({<<>>} \cup WalkBullets))

\* the cell the hitbox centre of a bullet lies over, None off the map
bullet_cell(b) == pixel_to_index(center(bullet_hitbox(b)))

\* one leg of a flight: the updates of a bullet that ended over the same cell.
\* entry is the direction of the move that brought the bullet there, remaps
\* the number of those updates that changed its direction, touched whether
\* one of them met a player or another bullet.
leg(cell, entry, remapped, touched) ==
    [cell |-> cell, entry |-> entry, remaps |-> IF remapped THEN 1 ELSE 0, touched |-> touched]
NoLeg == leg(None, "Never", FALSE, FALSE)

\* bullets that have not been updated yet
start_flight(bs) ==
    [i \in 1 .. Len(bs) |-> [cur |-> leg(bullet_cell(bs[i]), "None", FALSE, FALSE),
                             left |-> NoLeg]]

\* the moved bullet b, the one at idx, overlaps a player or another bullet
touches(b, ps, bs, idx) ==
    \/ \E i \in 1 .. Len(ps) : rect_collides(bullet_hitbox(b), player_hitbox(ps[i]))
    \/ \E j \in 1 .. Len(bs) :
          j # idx /\ rect_collides(bullet_hitbox(b), bullet_hitbox(bs[j]))

\* the flight f of a bullet after the update that took it from b to u
flight_step(f, b, u, touched) ==
    IF bullet_cell(u) = f.cur.cell
    THEN [f EXCEPT !.cur.remaps = IF u.dir # b.dir THEN @ + 1 ELSE @,
                   !.cur.touched = @ \/ touched]
    ELSE [cur |-> leg(bullet_cell(u), b.dir, u.dir # b.dir, touched), left |-> f.cur]

\* the rest of a GameState before its first update_logic
tickStart ==
    /\ the_map = ARENA
    /\ local_player = "P1"
    /\ controls = "None"
    /\ tpc = [phase |-> "idle", idx |-> 0]
    /\ players_to_remove = <<>>
    /\ bullets_to_remove = <<>>
    /\ events = <<>>
    /\ last = NoLast
    /\ found = {}
    /\ nticks = 0
    /\ panicked = FALSE
    /\ snapshot = <<>>
    /\ trace = <<>>
    /\ flight = start_flight(bullets)
    /\ mapIdle
    /\ genIdle

InitTick ==
    /\ \E sc \in TickScenarios : players = sc[1] /\ bullets = sc[2]
    /\ tickStart

\* SpecAny: update_logic on any GameState, Player and Bullet being plain
\* structs: players in motion, entities on the rim of the map and beyond it

\* the players ps with the one at index i moving at speed mag towards dir
moving(ps, i, mag, dir) == [ps EXCEPT ![i].vel = aligned(mag, dir), ![i].dir = dir]

\* the local player inside the wall, a step from the first or last pixel that
\* has an index
RimLayouts ==
    { placed(new_players(ARENA), 1, Vec(n_from_parts(8, ONE \div 4), n_from_int(16))),
      placed(new_players(ARENA), 1, Vec(n_from_int(16), n_from_parts(8, ONE \div 4))),
      placed(new_players(ARENA), 1,
             Vec(n_from_parts((MAP_WIDTH + 1) * TILE_SIZE - 1, 3 * (ONE \div 4)), n_from_int(16))) }

AnyLayouts ==
    {new_players(ARENA)} \cup WalkedLayouts \cup RimLayouts
    \cup { moving(ps, 1, mag, dir) :
             ps \in WalkedLayouts, mag \in {SPEED, 2 * SPEED}, dir \in {"Right", "Up"} }
    \cup { moving(ps, 2, SPEED, "Left") : ps \in WalkedLayouts }

\* pixels on both sides of each edge of the indexed area, and one beyond the
\* origin
RimPixels ==
    { Vec(x, n_from_int(28)) :
        x \in { n_from_int(TILE_SIZE) - 4, n_from_int(TILE_SIZE) + 4,
                n_from_int((MAP_WIDTH + 1) * TILE_SIZE) - 4,
                n_from_int((MAP_WIDTH + 1) * TILE_SIZE) + 4 } }
    \cup { Vec(n_from_int(28), y) :
        y \in { n_from_int(TILE_SIZE) - 4, n_from_int(TILE_SIZE) + 4,
                n_from_int((MAP_HEIGHT + 1) * TILE_SIZE) - 4,
                n_from_int((MAP_HEIGHT + 1) * TILE_SIZE) + 4 } }
    \cup { Vec(-n_from_int(4), -n_from_int(4)) }

\* a bullet that went through the wall: marked, never removed, still flying
RimBullets ==
    { << [new_bullet(pos, dir, "NoPlayer", kind) EXCEPT !.should_die = TRUE] >> :
        pos \in RimPixels, dir \in Direction, kind \in BulletType }

InitAny ==
    /\ players \in AnyLayouts
    /\ bullets \in {<<>>} \cup RimBullets \cup WalkBullets
    /\ tickStart

\* update_logic is entered: button_controller.update() samples the input
TickStart(dir) ==
    /\ tpc.phase = "idle"
    /\ controls' = dir
    /\ tpc' = [phase |-> IF Len(players) = 0 THEN "bullets" ELSE "players", idx |-> 1]
    /\ snapshot' = players
    /\ trace' = <<>>
    /\ players_to_remove' = <<>>
    /\ bullets_to_remove' = <<>>
    /\ events' = <<>>
    /\ last' = NoLast
    /\ found' = {}
    /\ UNCHANGED <<the_map, players, bullets, local_player, nticks, panicked, flight>>
    /\ UNCHANGED <<mapVars, genVars>>

\* the calls of update_logic the model makes
TickBegin(dir) == nticks < MaxTicks /\ TickStart(dir)

\* ControlsRepr handed to players[idx]: the input for the local player, the
\* default for the others
controls_for(p) == IF p.tag = local_player THEN controls ELSE "None"

\* a loop over the players that stops one index early
next_pc_short(idx, n) ==
    IF idx >= n - 1 THEN [phase |-> "bullets", idx |-> 1]
    ELSE [phase |-> "players", idx |-> idx + 1]

\* after the last index of the loop over the players the loop over the bullets
\* starts
next_pc(idx, n) ==
    IF idx >= n THEN [phase |-> "bullets", idx |-> 1] ELSE [phase |-> "players", idx |-> idx + 1]

\* one pass of the loop over the players: cur.update(...), whose unwrap of
\* pixel_to_index abandons the tick when the candidate position is off the map
PlayerUpdate ==
    /\ tpc.phase = "players"
    /\ tpc.idx <= Len(players)
    /\ IF update_panics(players, tpc.idx, controls_for(players[tpc.idx]))
       THEN /\ panicked' = TRUE
            /\ tpc' = [phase |-> "panic", idx |-> tpc.idx]
            /\ UNCHANGED <<players, last, trace>>
       ELSE /\ players' = [players EXCEPT
                             ![tpc.idx] = player_update(players, tpc.idx,
                                                        controls_for(players[tpc.idx]), the_map)]
            /\ last' = [kind |-> "player", idx |-> tpc.idx, before |-> players[tpc.idx],
                        event |-> NoEvent]
            /\ trace' = Append(trace, <<"player", tpc.idx>>)
            /\ tpc' = next_pc(tpc.idx, Len(players))
            /\ UNCHANGED panicked
    /\ UNCHANGED <<the_map, bullets, local_player, controls, players_to_remove,
                   bullets_to_remove, events, found, nticks, snapshot, flight>>
    /\ UNCHANGED <<mapVars, genVars>>

\* the rest of one pass of the loop over the bullets, u being what
\* cur.update(...) left
BulletApply(u) ==
    /\ bullets' = [bullets EXCEPT ![tpc.idx] = u.bullet]
    /\ events' = IF u.event = NoEvent THEN events ELSE Append(events, u.event)
    /\ players_to_remove' =
          IF kill_index(players, u.event) > 0
          THEN Append(players_to_remove, kill_index(players, u.event))
          ELSE players_to_remove
    /\ bullets_to_remove' =
          IF u.bullet.should_die THEN Append(bullets_to_remove, tpc.idx)
          ELSE bullets_to_remove
    /\ found' = IF u.same > 0 THEN found \cup { <<tpc.idx, u.same>> } ELSE found
    /\ last' = [kind |-> "bullet", idx |-> tpc.idx, before |-> bullets[tpc.idx],
                event |-> u.event]
    /\ flight' = [flight EXCEPT
                    ![tpc.idx] = flight_step(@, bullets[tpc.idx], u.bullet,
                                             touches(bullet_moved(bullets[tpc.idx]), players,
                                                     bullets, tpc.idx))]

\* one pass of the loop over the bullets
BulletUpdate ==
    /\ tpc.phase = "bullets"
    /\ tpc.idx <= Len(bullets)
    /\ BulletApply(bullet_update(bullets, tpc.idx, players, the_map))
    /\ trace' = Append(trace, <<"bullet", tpc.idx>>)
    /\ tpc' = [phase |-> "bullets", idx |-> tpc.idx + 1]
    /\ UNCHANGED <<the_map, players, local_player, controls, nticks, panicked, snapshot>>
    /\ UNCHANGED <<mapVars, genVars>>

\* update_logic returns: the two removal lists are dropped unused
\* an end of update_logic that takes the entities listed for removal out
TickEndRemoving ==
    /\ tpc.phase = "bullets"
    /\ tpc.idx > Len(bullets)
    /\ tpc' = [phase |-> "idle", idx |-> 0]
    /\ nticks' = nticks + 1
    /\ players' = SelectSeq(players,
                            LAMBDA p : \A k \in 1 .. Len(players_to_remove) :
                                          players[players_to_remove[k]].tag # p.tag)
    /\ bullets' = SelectSeq(bullets, LAMBDA b : ~b.should_die)
    /\ UNCHANGED <<the_map, local_player, controls, players_to_remove,
                   bullets_to_remove, events, last, found, panicked, snapshot, trace,
                   flight>>
    /\ UNCHANGED <<mapVars, genVars>>

TickEnd ==
    /\ tpc.phase = "bullets"
    /\ tpc.idx > Len(bullets)
    /\ tpc' = [phase |-> "idle", idx |-> 0]
    /\ nticks' = nticks + 1
    /\ UNCHANGED <<the_map, players, bullets, local_player, controls, players_to_remove,
                   bullets_to_remove, events, last, found, panicked, snapshot, trace,
                   flight>>
    /\ UNCHANGED <<mapVars, genVars>>

NextTick ==
    \/ \E dir \in ControlDirs : TickBegin(dir)
    \/ PlayerUpdate
    \/ BulletUpdate
    \/ TickEnd

\* SpecClear: update_logic on a GameState whose players stand apart and clear
\* of every tile that lets no player in

\* the players with the first at p1, the second at p2 and the others in the
\* middle of Empty tiles of the first row
clear_players(p1, p2) ==
    placed(placed(placed(placed(new_players(ARENA), 1, p1), 2, p2),
                  3, tile_middle(<<1, 1>>)),
           4, tile_middle(<<3, 1>>))

\* the local player in the open, one step left of a VertPipe, or one step left
\* of the second player
ClearStanding ==
    { clear_players(index_to_pixel(<<2, 5>>), tile_middle(<<5, 1>>)),
      clear_players(Vec(n_from_int(36), n_from_int(48)), tile_middle(<<5, 1>>)),
      clear_players(index_to_pixel(<<2, 5>>),
                    Vec(n_from_parts(31, 3 * (ONE \div 4)), n_from_int(48))) }

ClearLayouts ==
    ClearStanding
    \cup { moving(ps, 1, mag, dir) :
             ps \in ClearStanding, mag \in {SPEED, 2 * SPEED}, dir \in Direction }
    \cup { moving(ps, 2, SPEED, "Left") : ps \in ClearStanding }

InitClear ==
    /\ players \in ClearLayouts
    /\ bullets \in {<<>>} \cup WalkBullets
    /\ tickStart

\* SpecFlight: one bullet followed over several calls of update_logic, from
\* the update that takes it onto a diagonal mirror of the arena

\* the diagonal mirrors of ARENA
FlightMirrors == { <<3, 2>>, <<3, 4>> }

\* a bullet of the given kind one sub-pixel left of the mirror at cell c, at
\* the distance depth from the edge the mirror sends it to
flight_bullet(c, kind, depth) ==
    new_bullet(Vec(index_to_pixel(c).x - 1,
                   IF get(ARENA, c[1], c[2]) = UpMirror
                   THEN index_to_pixel(c).y + depth
                   ELSE index_to_pixel(c).y + n_from_int(TILE_SIZE) - depth),
               "Right", "NoPlayer", kind)

\* bullets half a step and a step and a half of their own from that edge
FlightBullets ==
    { << flight_bullet(c, kind, (k * speed(new_bullet(Vec(0, 0), "Right", "NoPlayer", kind)))
                                 \div 2) >> :
        c \in FlightMirrors, kind \in BulletType, k \in {1, 3} }

InitFlight ==
    /\ players = new_players(ARENA)
    /\ bullets \in FlightBullets
    /\ tickStart

\* the main loop calls update_logic with no button held
FlightBegin == nticks < MaxFlight /\ TickStart("None")

NextFlight ==
    \/ FlightBegin
    \/ PlayerUpdate
    \/ BulletUpdate
    \/ TickEnd

vars == <<grid, prev, lastOp, nops, gargs, gpc, rng, num_mirrors, retvl, ghist, ncall,
          first, the_map, players, bullets, local_player, controls, tpc, players_to_remove,
          bullets_to_remove, events, last, found, nticks, panicked, snapshot, trace,
          flight>>

SpecMap == InitMap /\ [][NextMap]_vars

SpecGen == InitGen /\ [][NextGen]_vars

SpecGenLive == InitGenLive /\ [][NextGen]_vars

SpecMatch == InitMatch /\ [][NextMatch]_vars

SpecRng == InitRng /\ [][NextRng]_vars

SpecTick == InitTick /\ [][NextTick]_vars

SpecAny == InitAny /\ [][NextTick]_vars

SpecFlight == InitFlight /\ [][NextFlight]_vars

SpecClear == InitClear /\ [][NextTick]_vars

-----------------------------------------------------------------------------
(* Claims about the packed grid *)

\* the cells off the outer ring
Interior == (1 .. MAP_WIDTH - 2) \X (1 .. MAP_HEIGHT - 2)
AllCells == (0 .. MAP_WIDTH - 1) \X (0 .. MAP_HEIGHT - 1)

\* C2: after set(x, y, t) or with(x, y, t) on any grid reached from from_raw by
\* set / with / flip / flip_all calls, get(x, y) returns t, for every tile
\* kind and for x of either parity.
C2_RoundTrip ==
    lastOp.op \in {"set", "with"} => get(grid, lastOp.x, lastOp.y) = lastOp.tile

\* C2 witness: the second call is a set at even x that overwrites the mirror the
\* first call put there, next to a Block in the other nibble of the byte.
C2_Witness ==
    /\ nops = 2
    /\ lastOp.op = "set"
    /\ lastOp.x % 2 = 0
    /\ lastOp.tile = VertPipe
    /\ get(prev, lastOp.x, lastOp.y) = DownMirror
    /\ get(prev, lastOp.x + 1, lastOp.y) = Block

\* C3: set(x, y, t) and with(x, y, t) leave every other cell, the one sharing
\* the byte included, and the four spawn coordinates as they were.
C3_SetFrame ==
    lastOp.op \in {"set", "with"} =>
        /\ \A y \in 0 .. MAP_HEIGHT - 1 : \A x \in 0 .. MAP_WIDTH - 1 :
              (x # lastOp.x \/ y # lastOp.y) => get(grid, x, y) = get(prev, x, y)
        /\ grid.spawns = prev.spawns

\* C3 witness: a with call changed the cell at odd x while the cell at even x
\* of the same byte held a non-empty tile.
C3_Witness ==
    /\ lastOp.op = "with"
    /\ lastOp.x % 2 = 1
    /\ get(prev, lastOp.x, lastOp.y) # lastOp.tile
    /\ get(prev, lastOp.x - 1, lastOp.y) = VertPipe
    /\ lastOp.tile = HorizPipe

\* the arrays from_raw is called on
RawLayouts == {HONEYCOMB_TILES, MIXED_TILES}

\* C17: in every grid reached from from_raw by set / with / flip / flip_all
\* calls each byte is two nibbles with the top bit clear, the high one the tile
\* at even x and the low one the tile at odd x; and a grid fresh from
\* from_raw(data) reads back data[y][x] in every cell.
C17_NibbleInvariant ==
    /\ \A y \in 0 .. MAP_HEIGHT - 1 : \A bx \in 0 .. MAP_BYTE_WIDTH - 1 :
          LET byte == grid.data[y][bx]
          IN  /\ byte \in 0 .. 255
              /\ byte \div 16 < 8
              /\ byte % 16 < 8
              /\ to_u8(get(grid, 2 * bx, y)) = byte \div 16
              /\ to_u8(get(grid, 2 * bx + 1, y)) = byte % 16
    /\ \A data \in RawLayouts :
          (nops = 0 /\ grid = from_raw(data, grid.spawns)) =>
              \A y \in 0 .. MAP_HEIGHT - 1 : \A x \in 0 .. MAP_WIDTH - 1 :
                  get(grid, x, y) = data[y][x]
    /\ nops = 0 => \E data \in RawLayouts : grid = from_raw(data, grid.spawns)

\* C17 witness: a flip turned the UpMirror a set had put at (0, 0) into a
\* DownMirror, in the high nibble of a byte whose low nibble is a Block.
C17_Witness ==
    /\ nops = 2
    /\ lastOp.op = "flip"
    /\ lastOp.x = 0 /\ lastOp.y = 0
    /\ get(prev, 0, 0) = UpMirror
    /\ grid.data[0][0] = 16 * to_u8(DownMirror) + to_u8(Block)

-----------------------------------------------------------------------------
(* Claims about generate *)

IsMirror(tile) == tile \in {UpMirror, DownMirror}

\* the cells of map holding an UpMirror or a DownMirror
MirrorCells(map) ==
    {c \in (0 .. MAP_WIDTH - 1) \X (0 .. MAP_HEIGHT - 1) : IsMirror(get(map, c[1], c[2]))}

C4_SpawnsStayEmpty ==
    (gpc = "done" /\ verify_spawns(gargs.base)) => verify_spawns(retvl)

\* C5: on a base with no UpMirror or DownMirror, generate(seed, base, n, n)
\* keeps (mirrors written so far) + (counter) = n through the loop, so the grid
\* it returns holds exactly n mirrors, each on a cell that was Empty in the base.
C5_MirrorCount ==
    (gpc \in {"loop", "done"} /\ gargs.min = gargs.max /\ MirrorCells(gargs.base) = {}) =>
        /\ Cardinality(MirrorCells(retvl)) + num_mirrors = gargs.min
        /\ \A c \in MirrorCells(retvl) : get(gargs.base, c[1], c[2]) = Empty
        /\ (gpc = "done" => Cardinality(MirrorCells(retvl)) = gargs.min)

\* C5 witness: a call with min = max = n >= 3 returned after discarding some
\* candidates on the way.
C5_Witness ==
    /\ gpc = "done"
    /\ gargs.min = gargs.max
    /\ gargs.min >= 3
    /\ ghist.iters > gargs.min
    /\ Cardinality(MirrorCells(retvl)) = gargs.min

-----------------------------------------------------------------------------
(* Claims about Bullet::update and the bullet pass of update_logic *)

\* the last step was the update of a bullet
BulletStepped == last.kind = "bullet"
\* that bullet after its move, before any collision test
MovedBullet == bullet_moved(last.before)
\* that bullet as its update left it
UpdatedBullet == bullets[last.idx]

TouchesPlayer(b, i) == rect_collides(bullet_hitbox(b), player_hitbox(players[i]))
TouchedPlayers(b) == { i \in 1 .. Len(players) : TouchesPlayer(b, i) }
\* the other bullets the moved bullet overlaps (no update changes another bullet)
TouchedBullets(b) ==
    { j \in 1 .. Len(bullets) :
        j # last.idx /\ rect_collides(bullet_hitbox(b), bullet_hitbox(bullets[j])) }
TileUnder(b) == tile_at_pixel(the_map, center(bullet_hitbox(b)))
\* the update went straight from the move to the tile test
Untouched == TouchedPlayers(MovedBullet) = {} /\ TouchedBullets(MovedBullet) = {}

UpMirrorTable == [d \in Direction |->
    CASE d = "Right" -> "Up" [] d = "Up" -> "Right" [] d = "Down" -> "Left" [] d = "Left" -> "Down"]
DownMirrorTable == [d \in Direction |->
    CASE d = "Right" -> "Down" [] d = "Down" -> "Right" [] d = "Up" -> "Left" [] d = "Left" -> "Up"]

\* C6: a bullet whose update touches no player and no other bullet and whose
\* hitbox centre is on an UpMirror leaves the update with its direction remapped
\* Right->Up, Up->Right, Down->Left, Left->Down (on a DownMirror: Right->Down,
\* Down->Right, Up->Left, Left->Up), with should_die as it was, and the remap
\* applied twice gives the original direction back.
C6_MirrorRemap ==
    (BulletStepped /\ Untouched) =>
        /\ TileUnder(MovedBullet) = UpMirror =>
              /\ UpdatedBullet.dir = UpMirrorTable[last.before.dir]
              /\ UpdatedBullet.should_die = last.before.should_die
              /\ on_tile(UpdatedBullet, UpMirror).dir = last.before.dir
        /\ TileUnder(MovedBullet) = DownMirror =>
              /\ UpdatedBullet.dir = DownMirrorTable[last.before.dir]
              /\ UpdatedBullet.should_die = last.before.should_die
              /\ on_tile(UpdatedBullet, DownMirror).dir = last.before.dir

\* C6 witness: a bullet travelling Left over the UpMirror, touching nothing, has
\* left its update travelling Down and alive.
C6_Witness ==
    /\ BulletStepped /\ Untouched
    /\ TileUnder(MovedBullet) = UpMirror
    /\ last.before.dir = "Left"
    /\ UpdatedBullet.dir = "Down"
    /\ ~UpdatedBullet.should_die

\* C7: a bullet whose hitbox centre is on a HorizPipe while it travels Up or
\* Down (on a VertPipe while Left or Right) has should_die set after its update
\* whatever else the update met; travelling along the pipe's axis and touching
\* no player and no other bullet, it keeps its direction and its should_die.
C7_PipeAxis ==
    BulletStepped =>
        /\ ( \/ TileUnder(MovedBullet) = HorizPipe /\ last.before.dir \in {"Up", "Down"}
             \/ TileUnder(MovedBullet) = VertPipe /\ last.before.dir \in {"Left", "Right"} )
           => UpdatedBullet.should_die
        /\ ( /\ Untouched
             /\ \/ TileUnder(MovedBullet) = HorizPipe /\ last.before.dir \in {"Left", "Right"}
                \/ TileUnder(MovedBullet) = VertPipe /\ last.before.dir \in {"Up", "Down"} )
           => /\ UpdatedBullet.dir = last.before.dir
              /\ UpdatedBullet.should_die = last.before.should_die

\* C7 witness: a bullet travelling Up over a HorizPipe was turned round by a
\* Reflector it overlaps, reached the tile test travelling Down, and died there.
C7_Witness ==
    /\ BulletStepped
    /\ TileUnder(MovedBullet) = HorizPipe
    /\ last.before.dir = "Up"
    /\ TouchedPlayers(MovedBullet) = {}
    /\ TouchedBullets(MovedBullet) # {}
    /\ UpdatedBullet.dir = "Down"
    /\ UpdatedBullet.should_die
    /\ ~last.before.should_die

\* the player tag an owner tag stands for
OwnerOf == [t \in BulletTag |->
    CASE t = "Player1" -> "P1" [] t = "Player2" -> "P2" [] t = "Player3" -> "P3"
      [] t = "Player4" -> "P4" [] t = "NoPlayer" -> "nobody"]
\* the player the moved bullet hits: the first in index order that it overlaps
HitPlayer == players[CHOOSE i \in TouchedPlayers(MovedBullet) :
                        \A j \in TouchedPlayers(MovedBullet) : i <= j]

\* C8: a bullet of kind Bullet that hits player p returns
\* PushChargePlayer(p, its direction) exactly when its owner tag is p's, and
\* KillPlayer(p) for every other owner tag, NoPlayer included.
C8_PushOrKill ==
    (BulletStepped /\ last.before.kind = "Bullet" /\ TouchedPlayers(MovedBullet) # {}) =>
        /\ last.event.tag = HitPlayer.tag
        /\ OwnerOf[last.before.tag] = HitPlayer.tag
              => last.event = [ev |-> "PushChargePlayer", tag |-> HitPlayer.tag,
                               dir |-> last.before.dir]
        /\ OwnerOf[last.before.tag] # HitPlayer.tag
              => last.event.ev = "KillPlayer"

\* C8 witness: a bullet owned by Player4 has hit P4 and returned the push, and
\* the same update is in the list of events of the tick.
C8_Witness ==
    /\ BulletStepped
    /\ last.before.kind = "Bullet"
    /\ last.before.tag = "Player4"
    /\ TouchedPlayers(MovedBullet) # {}
    /\ HitPlayer.tag = "P4"
    /\ last.event.ev = "PushChargePlayer"
    /\ events = <<last.event>>

\* C9: at the end of a tick, for every bullet A whose update found its moved
\* hitbox overlapping a same-kind bullet B, both A and B have should_die set.
C9_MutualDeath ==
    (tpc.phase = "idle" /\ nticks > 0) =>
        \A pair \in found : bullets[pair[1]].should_die /\ bullets[pair[2]].should_die

\* C10: a kind-Bullet bullet whose update touches no player and no same-kind
\* bullet but overlaps one or more Reflectors reaches the tile test with its
\* direction flipped 180 degrees and with should_die as it was, so that what the
\* update leaves is the tile's effect on the flipped bullet; the Reflectors are
\* left as they were.
C10_ReflectorReversal ==
    ( /\ BulletStepped
      /\ last.before.kind = "Bullet"
      /\ TouchedPlayers(MovedBullet) = {}
      /\ TouchedBullets(MovedBullet) # {}
      /\ \A j \in TouchedBullets(MovedBullet) : bullets[j].kind = "Reflector" )
    => UpdatedBullet = on_tile([MovedBullet EXCEPT !.dir = flipped(last.before.dir)],
                               TileUnder(MovedBullet))

-----------------------------------------------------------------------------
(* Claims about Player::update and the player pass of update_logic *)

\* the last step was the update of a player
PlayerStepped == last.kind = "player"
\* that player as its update left it
UpdatedPlayer == players[last.idx]
\* that player after step_vel
SteppedPlayer == step_vel(last.before, controls_for(last.before))
\* the candidate position of that update and the hitbox there
CandidatePos ==
    snapped(SteppedPlayer, next_pos_raw(SteppedPlayer),
            index_to_pixel(pixel_to_index(next_pos_raw(SteppedPlayer))))
CandidateBox == hitbox_at(CandidatePos, player_size)
BlockedByTile ==
    \E c \in {tl(CandidateBox), tr(CandidateBox), bl(CandidateBox), br(CandidateBox)} :
        ~allows_player(tile_at_pixel(the_map, c))
\* no update changes another player, so the others are where that update saw them
BlockedByPlayer ==
    \E j \in 1 .. Len(players) :
        j # last.idx /\ rect_collides(CandidateBox, player_hitbox(players[j]))

\* C11: a Player::update whose candidate move is blocked by a disallowed tile or
\* by another player's hitbox leaves the velocity exactly zero and the position
\* where it was; an update that is not blocked leaves the player at the
\* candidate position with the stepped velocity.
C11_AtomicRejection ==
    PlayerStepped =>
        IF BlockedByTile \/ BlockedByPlayer
        THEN /\ magnitude(UpdatedPlayer.vel) = 0
             /\ UpdatedPlayer.pos = last.before.pos
        ELSE /\ UpdatedPlayer.pos = CandidatePos
             /\ UpdatedPlayer.vel = SteppedPlayer.vel

\* C11 witness: a player in motion ran into another player, no tile being in
\* the way: it stands where it stood, its velocity zero.
C11_Witness ==
    /\ PlayerStepped
    /\ magnitude(last.before.vel) > 0
    /\ magnitude(SteppedPlayer.vel) > 0
    /\ BlockedByPlayer /\ ~BlockedByTile
    /\ magnitude(UpdatedPlayer.vel) = 0
    /\ UpdatedPlayer.pos = last.before.pos

\* the footprint of the cell c, its left and upper edges included, holds a
\* point of the box, edges included
FootprintMeets(c, box) ==
    /\ box.x + box.w >= index_to_pixel(c).x
    /\ box.x < index_to_pixel(c).x + n_from_int(TILE_SIZE)
    /\ box.y + box.h >= index_to_pixel(c).y
    /\ box.y < index_to_pixel(c).y + n_from_int(TILE_SIZE)
\* the cells around the box: a box smaller than a tile meets no other
AroundBox(box) ==
    { c \in AllCells :
        /\ c[1] + BUFFER_TILES \in (box.x \div n_from_int(TILE_SIZE)) - 1
                                   .. ((box.x + box.w) \div n_from_int(TILE_SIZE)) + 1
        /\ c[2] + BUFFER_TILES \in (box.y \div n_from_int(TILE_SIZE)) - 1
                                   .. ((box.y + box.h) \div n_from_int(TILE_SIZE)) + 1 }
\* the tiles under the box
TilesUnder(box) ==
    { get(the_map, c[1], c[2]) : c \in {d \in AroundBox(box) : FootprintMeets(d, box)} }
\* the update turned its candidate down: the player is where it was, at rest
Rejected == UpdatedPlayer.pos = last.before.pos /\ magnitude(UpdatedPlayer.vel) = 0
\* the update took its candidate
Accepted == UpdatedPlayer.pos = CandidatePos /\ UpdatedPlayer.vel = SteppedPlayer.vel

\* C23: Player::update turns the candidate move down exactly when a tile under
\* the candidate hitbox is a Block, a HorizPipe or a VertPipe, or the candidate
\* hitbox overlaps another player's; otherwise it takes the move, whatever
\* bullets are there.
C23_RejectionRule ==
    PlayerStepped =>
        IF \/ TilesUnder(CandidateBox) \cap {Block, HorizPipe, VertPipe} # {}
           \/ \E j \in 1 .. Len(players) :
                 j # last.idx /\ rect_collides(CandidateBox, player_hitbox(players[j]))
        THEN Rejected
        ELSE Accepted

\* C23 witness: a player took a move onto a straight mirror, its candidate
\* hitbox overlapping a bullet.
C23_Witness ==
    /\ PlayerStepped
    /\ UpdatedPlayer.pos # last.before.pos
    /\ TilesUnder(CandidateBox) \cap {HorizMirror, VertMirror} # {}
    /\ \E b \in 1 .. Len(bullets) : rect_collides(CandidateBox, bullet_hitbox(bullets[b]))

\* the distance between two coordinates
Dist(a, b) == IF a >= b THEN a - b ELSE b - a
\* p is a lane position (a tile boundary) and no lane position is nearer to v
NearestLane(p, v) ==
    /\ p % n_from_int(TILE_SIZE) = 0
    /\ 2 * Dist(p, v) <= n_from_int(TILE_SIZE)

\* C24: the candidate position of Player::update has, along the facing axis,
\* the coordinate of pos + vel, and across it the lane position nearest to
\* that of pos + vel.
C24_LaneSnapping ==
    PlayerStepped =>
        IF is_horizontal(SteppedPlayer.dir)
        THEN /\ CandidatePos.x = next_pos_raw(SteppedPlayer).x
             /\ NearestLane(CandidatePos.y, next_pos_raw(SteppedPlayer).y)
        ELSE /\ CandidatePos.y = next_pos_raw(SteppedPlayer).y
             /\ NearestLane(CandidatePos.x, next_pos_raw(SteppedPlayer).x)

\* the player of the last update went into it faster than SPEED
Overboosted == magnitude(last.before.vel) > SPEED
\* the input that update saw
Input == controls_for(last.before)
Lower(mag, amount) == IF mag > amount THEN mag - amount ELSE 0
Raise(mag, amount, cap) == IF mag + amount > cap THEN cap ELSE mag + amount

\* C25: the velocity step of a player. Overboost is read off the velocity the
\* player enters the update with (magnitude > SPEED) and is no field of the
\* player. Not overboosted: no input leaves the facing and lowers the magnitude
\* by FRICTION, not below zero; input d sets the facing to d in the same update
\* and moves the velocity to direction d, its magnitude raised by ACCEL up to
\* SPEED. Overboosted: the magnitude is lowered by OVERBOOST_FRICTION, not below
\* zero, its direction kept, and input sets only the facing. The update leaves
\* the player with that facing and with that velocity or, blocked, with none.
C25_VelocityStep ==
    PlayerStepped =>
        /\ DOMAIN UpdatedPlayer = {"pos", "dir", "vel", "charge", "tag"}
        /\ UpdatedPlayer.dir = SteppedPlayer.dir
        /\ UpdatedPlayer.vel \in {SteppedPlayer.vel, zero(SteppedPlayer.dir)}
        /\ IF Overboosted
           THEN /\ SteppedPlayer.vel.mag = Lower(last.before.vel.mag, OVERBOOST_FRICTION)
                /\ SteppedPlayer.vel.mag < last.before.vel.mag
                /\ SteppedPlayer.vel.dir = last.before.vel.dir
                /\ SteppedPlayer.dir = IF Input = "None" THEN last.before.dir ELSE Input
           ELSE IF Input = "None"
                THEN /\ SteppedPlayer.dir = last.before.dir
                     /\ SteppedPlayer.vel.dir = last.before.vel.dir
                     /\ SteppedPlayer.vel.mag = Lower(last.before.vel.mag, FRICTION)
                ELSE /\ SteppedPlayer.dir = Input
                     /\ SteppedPlayer.vel.dir = Input
                     /\ SteppedPlayer.vel.mag = Raise(last.before.vel.mag, ACCEL, SPEED)

\* C25 witness: an overboosted player moving one way was given input another
\* way: it faces the input, still moves the old way, and slower.
C25_Witness ==
    /\ PlayerStepped
    /\ Overboosted
    /\ Input # "None" /\ Input # last.before.vel.dir /\ Input # last.before.dir
    /\ UpdatedPlayer.dir = Input
    /\ UpdatedPlayer.vel.dir = last.before.vel.dir
    /\ UpdatedPlayer.vel.mag = last.before.vel.mag - OVERBOOST_FRICTION

\* what the player pass would leave if every update read the other players
\* from the snapshot taken as update_logic was entered
SnapshotPass ==
    [i \in 1 .. Len(snapshot) |->
        player_update(snapshot, i, controls_for(snapshot[i]), the_map)]

\* C12: every player's update reads the other players where they stood when
\* the tick began, never where an earlier update of the same tick put them, and
\* so the player pass leaves what updating every player against that snapshot
\* leaves.
C12_SnapshotReads ==
    /\ PlayerStepped =>
          \A j \in 1 .. Len(players) : j # last.idx => players[j].pos = snapshot[j].pos
    /\ (tpc.phase = "bullets" /\ ~panicked) => players = SnapshotPass

-----------------------------------------------------------------------------
(* Claims about the order of update_logic *)

\* every player by increasing index, then every bullet by increasing index
ExpectedOrder ==
    [k \in 1 .. Len(players) + Len(bullets) |->
        IF k <= Len(players) THEN <<"player", k>> ELSE <<"bullet", k - Len(players)>>]

\* the updates made so far are the first ones of that order, and all of them
\* once update_logic has returned
OrderKept ==
    /\ Len(trace) <= Len(players) + Len(bullets)
    /\ trace = SubSeq(ExpectedOrder, 1, Len(trace))
    /\ (tpc.phase = "idle" /\ nticks > 0) => trace = ExpectedOrder

\* an update changes the entity it is the update of and nothing else
OwnUpdateOnly ==
    (trace' # trace /\ trace' # <<>>) =>
        IF trace'[Len(trace')][1] = "player"
        THEN /\ bullets' = bullets
             /\ \A j \in 1 .. Len(players) :
                    j # trace'[Len(trace')][2] => players'[j] = players[j]
        ELSE /\ players' = players
             /\ \A j \in 1 .. Len(bullets) :
                    j # trace'[Len(trace')][2] => bullets'[j] = bullets[j]

\* C13: in one update_logic call every player's update runs once, by increasing
\* index, then every bullet's update runs once, by increasing index, and each
\* update changes only the entity it belongs to.
C13_TickOrdering == []OrderKept /\ [][OwnUpdateOnly]_vars

\* C13 witness: update_logic has returned after updating four players and three
\* bullets in that order, a bullet having been changed by its update.
C13_Witness ==
    /\ tpc.phase = "idle" /\ nticks > 0
    /\ Len(players) = 4 /\ Len(bullets) = 3
    /\ trace = ExpectedOrder
    /\ trace[4] = <<"player", 4>> /\ trace[5] = <<"bullet", 1>>
    /\ bullets[3].should_die

-----------------------------------------------------------------------------
(* Claims about the loop of generate *)

\* what a pass of the loop reads and writes
LoopState == <<rng, retvl, num_mirrors>>

\* C14: whatever the seed (zero included), the base and the mirror range,
\* generate stops after a bounded number of candidate draws.  The loop being
\* deterministic, it stops only if no pass leaves the generator, the grid and
\* the counter all as it found them: such a pass is followed by itself for
\* ever.
C14_GenerateTerminates ==
    [][(gpc = "loop" /\ num_mirrors > 0) => LoopState' # LoopState]_vars

-----------------------------------------------------------------------------
(* Claims about lookups off the map *)

\* a pixel left of or above the one-tile buffer, or at or beyond the index
\* MAP_WIDTH / MAP_HEIGHT
OffMap(pos) ==
    \/ pos.x < n_from_int(BUFFER_TILES * TILE_SIZE)
    \/ pos.y < n_from_int(BUFFER_TILES * TILE_SIZE)
    \/ pos.x >= n_from_int((MAP_WIDTH + BUFFER_TILES) * TILE_SIZE)
    \/ pos.y >= n_from_int((MAP_HEIGHT + BUFFER_TILES) * TILE_SIZE)
\* the cell a pixel of the map lies in
CellOf(pos) ==
    << pos.x \div n_from_int(TILE_SIZE) - BUFFER_TILES,
       pos.y \div n_from_int(TILE_SIZE) - BUFFER_TILES >>
\* the tile a lookup of pos has to report
TileOrSentinel(pos) ==
    IF OffMap(pos) THEN Empty ELSE get(the_map, CellOf(pos)[1], CellOf(pos)[2])
Corners(box) == {tl(box), tr(box), bl(box), br(box)}
\* the pixels the last update looked up
LookedUp ==
    IF BulletStepped THEN {center(bullet_hitbox(MovedBullet))}
    ELSE IF PlayerStepped THEN Corners(CandidateBox) \cup {next_pos_raw(SteppedPlayer)}
    ELSE {}

\* C15: for every pixel an update looks up, pixel_to_index gives None when the
\* pixel is off the map and the cell (inside the grid) the pixel lies in
\* otherwise; tile_at_pixel and tiles_intersecting report Empty for a pixel off
\* the map and the tile of that cell otherwise.
C15_OffMapSentinel ==
    /\ \A pos \in LookedUp :
          /\ OffMap(pos) => pixel_to_index(pos) = None
          /\ ~OffMap(pos) =>
                /\ pixel_to_index(pos) = CellOf(pos)
                /\ CellOf(pos)[1] \in 0 .. MAP_WIDTH - 1
                /\ CellOf(pos)[2] \in 0 .. MAP_HEIGHT - 1
          /\ tile_at_pixel(the_map, pos) = TileOrSentinel(pos)
    /\ PlayerStepped =>
          tiles_intersecting(the_map, CandidateBox)
              = { TileOrSentinel(c) : c \in Corners(CandidateBox) }

\* C15 witness: a player standing in the wall was updated with two corners of
\* its candidate hitbox off the map and two on it, and the lookup reported
\* Empty for the former and the wall for the latter.
C15_Witness ==
    /\ PlayerStepped
    /\ \E c \in Corners(CandidateBox) : OffMap(c)
    /\ \E c \in Corners(CandidateBox) : ~OffMap(c)
    /\ tiles_intersecting(the_map, CandidateBox) = {Empty, Block}

\* C16: Player.update never fails: no update of a player, wherever the player
\* stands and however it moves, aborts the tick.
C16_UpdateNeverFails == ~panicked

-----------------------------------------------------------------------------
(* Claims about the draws of Rng *)

\* the draw made and the value it returned
Draw == gargs.draw
Drawn == ghist.val
\* min <= v <= max in the type of the draw
Within(v, min, max) ==
    IF Draw.fn \in {"u8_const", "i32_const"}
    THEN min <= v /\ v <= max
    ELSE ~Lt64(v, min) /\ ~Lt64(max, v)

\* C31: bounded draws. Whatever the state of the generator and the range
\* min <= max of the type drawn, the whole type included, u8_const, usize_const,
\* u64_const and i32_const return, without an arithmetic overflow on the way, a
\* value between min and max and a generator advanced by one xorshift step;
\* bool_const returns the lowest bit of the advanced state with that generator.
C31_BoundedDraws ==
    /\ gpc # "panic"
    /\ gpc = "drawn" =>
          /\ rng = step(gargs.self)
          /\ IF Draw.fn = "bool_const"
             THEN Drawn = (Bit64(rng, 0) = 1)
             ELSE Within(Drawn, Draw.min, Draw.max)
          /\ Draw.fn = "i32_const" => ~i32_const_overflows(Draw.min, Draw.max)

-----------------------------------------------------------------------------
(* Claims about where the players stand *)

\* no two of the players ps overlap
Apart(ps) ==
    \A i \in 1 .. Len(ps) : \A j \in i + 1 .. Len(ps) :
        ~rect_collides(player_hitbox(ps[i]), player_hitbox(ps[j]))
\* the players of ps whose hitbox touches a tile that lets no player in
InBlocking(ps) ==
    { i \in 1 .. Len(ps) :
        TilesUnder(player_hitbox(ps[i])) \cap {Block, HorizPipe, VertPipe} # {} }

\* the coordinate of pos across the direction dir
Across(pos, dir) == IF is_horizontal(dir) THEN pos.y ELSE pos.x

\* C33: players never overlap and never stand in blocking tiles. From a state
\* in which no two players' hitboxes overlap and no player's hitbox touches a
\* Block, a HorizPipe or a VertPipe, the same holds at every point of every
\* sequence of ticks, whatever the input, ticks that turn a player and snap it
\* to another lane included.
C33_PlayersStayClear == Apart(players) /\ InBlocking(players) = {}

\* C33 witness: an update turned a player and put it on a lane more than a
\* pixel from where it stood across its new facing; the players are apart and
\* clear.
C33_Witness ==
    /\ PlayerStepped
    /\ UpdatedPlayer.dir # last.before.dir
    /\ Dist(Across(UpdatedPlayer.pos, UpdatedPlayer.dir),
            Across(last.before.pos, UpdatedPlayer.dir)) > ONE
    /\ Apart(players) /\ InBlocking(players) = {}

-----------------------------------------------------------------------------
(* Claims about what update_logic does with the events and the dead *)

\* what makes an entity the one it is
PlayerIds(ps) == [i \in 1 .. Len(ps) |-> ps[i].tag]
BulletIds(bs) == [i \in 1 .. Len(bs) |-> <<bs[i].tag, bs[i].kind>>]
\* the tick listed a player and a bullet for removal
ListedForRemoval == Len(players_to_remove) > 0 /\ Len(bullets_to_remove) > 0

\* C26: removal is never applied. At every point of every sequence of
\* update_logic calls the players are four, tagged P1, P2, P3, P4 in this
\* order, so that a KillPlayer event always finds its player; and no step takes
\* a player or a bullet out, puts one in or changes their order, whatever events
\* were returned and whichever bullets have should_die set.
C26_RemovalNeverApplied ==
    /\ [](/\ PlayerIds(players) = <<"P1", "P2", "P3", "P4">>
          /\ \A e \in 1 .. Len(events) :
                events[e].ev = "KillPlayer" => kill_index(players, events[e]) > 0)
    /\ [][/\ PlayerIds(players') = PlayerIds(players)
          /\ BulletIds(bullets') = BulletIds(bullets)]_vars

\* C26 witness: a second call of update_logic has returned with a player and a
\* bullet listed for removal: the player is in its place, and the bullet, its
\* should_die set, is still among the bullets.
C26_Witness ==
    /\ tpc.phase = "idle" /\ nticks > 1
    /\ ListedForRemoval
    /\ \A k \in 1 .. Len(players_to_remove) :
          players[players_to_remove[k]].tag \in {"P1", "P2", "P3", "P4"}
    /\ \A k \in 1 .. Len(bullets_to_remove) :
          bullets[bullets_to_remove[k]].should_die

\* a call of update_logic has returned
TickReturned == tpc.phase = "idle" /\ nticks > 0
\* the players the events of that call pushed
Pushed ==
    { i \in 1 .. Len(players) :
        \E e \in 1 .. Len(events) :
            events[e].ev = "PushChargePlayer" /\ events[e].tag = players[i].tag }

\* C27: a friendly push takes effect. When update_logic has returned, every
\* player named by a PushChargePlayer event of that call has a charge above the
\* one it entered the call with; and the event did not abort the call.
C27_FriendlyPushTakesEffect ==
    /\ TickReturned =>
          \A i \in Pushed : players[i].charge > snapshot[i].charge
    /\ (Pushed # {} /\ tpc.phase = "panic") => last.kind = "player"

\* the first player in index order the moved bullet overlaps
FirstTouched == CHOOSE i \in TouchedPlayers(MovedBullet) :
                    \A j \in TouchedPlayers(MovedBullet) : i <= j
\* the event a bullet of kind Bullet owes to the player at index i
EventFor(i) ==
    IF matches_player(last.before.tag, players[i].tag)
    THEN PushChargePlayer(players[i].tag, last.before.dir)
    ELSE KillPlayer(players[i].tag)
\* the update ended on a bullet of its own kind
EndedOnBullet == \E j \in 1 .. Len(bullets) : <<last.idx, j>> \in found

\* C28: player contact in Bullet::update. A moved bullet that overlaps a player
\* has should_die set; only the first such player in index order counts; the
\* update ends there, the other bullets and the tile under the bullet changing
\* nothing of it. A Reflector returns no event; an event is returned exactly
\* when a bullet of kind Bullet overlaps a player, so it comes with should_die
\* set; and an update returns at most one event.
C28_PlayerContact ==
    /\ BulletStepped =>
          /\ TouchedPlayers(MovedBullet) # {} =>
                /\ UpdatedBullet = [MovedBullet EXCEPT !.should_die = TRUE]
                /\ ~EndedOnBullet
                /\ last.event = IF last.before.kind = "Bullet"
                                THEN EventFor(FirstTouched) ELSE NoEvent
          /\ last.before.kind = "Reflector" => last.event = NoEvent
          /\ last.event # NoEvent <=>
                (last.before.kind = "Bullet" /\ TouchedPlayers(MovedBullet) # {})
          /\ last.event # NoEvent => UpdatedBullet.should_die
    /\ tpc.phase = "bullets" => Len(events) <= tpc.idx - 1

\* C28 witness: a Reflector overlapping a player and a bullet of the other kind
\* was updated: it is to die, it returned nothing, and it was not turned round.
C28_Witness ==
    /\ BulletStepped
    /\ last.before.kind = "Reflector"
    /\ TouchedPlayers(MovedBullet) # {}
    /\ \E j \in TouchedBullets(MovedBullet) : bullets[j].kind = "Bullet"
    /\ UpdatedBullet.should_die /\ ~last.before.should_die
    /\ UpdatedBullet.dir = last.before.dir
    /\ last.event = NoEvent

-----------------------------------------------------------------------------
(* Claims about the straight mirrors *)

\* the update went through both loops: the moved bullet overlaps no player and
\* no bullet of its own kind
ReachedTile ==
    /\ BulletStepped
    /\ TouchedPlayers(MovedBullet) = {}
    /\ \A j \in TouchedBullets(MovedBullet) : bullets[j].kind # last.before.kind
\* the Reflectors that turned the bullet round on the way to the tile test
Reflections ==
    IF last.before.kind = "Bullet" THEN Cardinality(TouchedBullets(MovedBullet)) ELSE 0
\* the bullet as the tile match found it
AtTile ==
    IF Reflections % 2 = 1 THEN [MovedBullet EXCEPT !.dir = flipped(MovedBullet.dir)]
    ELSE MovedBullet
Turned == [AtTile EXCEPT !.dir = flipped(AtTile.dir)]
Killed == [AtTile EXCEPT !.should_die = TRUE]

C30_DocumentedMirrors ==
    ReachedTile =>
        /\ TileUnder(MovedBullet) = HorizMirror =>
              UpdatedBullet = IF is_vertical(AtTile.dir) THEN Turned ELSE AtTile
        /\ TileUnder(MovedBullet) = VertMirror =>
              UpdatedBullet = IF is_horizontal(AtTile.dir) THEN Turned ELSE AtTile

\* the bullet updated last went into its update with should_die set: every
\* bullet starts unmarked and is updated once a tick, so an earlier tick set it
WasDead == BulletStepped /\ last.before.should_die
\* the other bullets the moved bullet overlaps were all marked in an earlier
\* tick: they are marked and their update of this tick is still to come
MetOnlyDead ==
    /\ TouchedPlayers(MovedBullet) = {}
    /\ TouchedBullets(MovedBullet) # {}
    /\ \A j \in TouchedBullets(MovedBullet) : j > last.idx /\ bullets[j].should_die

\* C32: a destroyed bullet is inert. A bullet whose should_die was set in an
\* earlier tick keeps it set and returns no event; and a live bullet that, over
\* an Empty tile, overlaps only bullets destroyed in earlier ticks comes out of
\* its update as it was moved, neither marked nor turned round.
C32_DeadBulletInert ==
    /\ WasDead => (UpdatedBullet.should_die /\ last.event = NoEvent)
    /\ (BulletStepped /\ ~last.before.should_die /\ MetOnlyDead
          /\ TileUnder(MovedBullet) = Empty) => UpdatedBullet = MovedBullet

-----------------------------------------------------------------------------
(* Claims about a bullet's flight over several ticks *)

\* the last update took the bullet at index i off the cell it was over
LeftCell(i) ==
    /\ BulletStepped
    /\ last.idx = i
    /\ bullet_cell(MovedBullet) # bullet_cell(last.before)
\* the tile of the cell the bullet at index i left last
LeftTile(i) == tile_or_empty(the_map, flight[i].left.cell)
\* the leg over that cell began with a move to the Right and met nothing
CameInRight(i) == flight[i].left.entry = "Right" /\ ~flight[i].left.touched

\* C18: a bullet that came onto an UpMirror travelling Right and touched no
\* player or other bullet while over it leaves the tile with a move Up, its
\* direction changed exactly once over the tile; over a DownMirror, with a move
\* Down.
C18_MirrorExit ==
    \A i \in 1 .. Len(bullets) :
        (LeftCell(i) /\ CameInRight(i)) =>
            /\ LeftTile(i) = UpMirror =>
                  last.before.dir = "Up" /\ flight[i].left.remaps = 1
            /\ LeftTile(i) = DownMirror =>
                  last.before.dir = "Down" /\ flight[i].left.remaps = 1

-----------------------------------------------------------------------------
(* Claims about the match of generate *)

\* the sides whose flag is true
OpenSides(f) == {side \in {"u", "d", "l", "r"} : f[side]}
\* the pass placed tile on its candidate and counted it, drawing nothing more
Placed(tile) ==
    /\ retvl = with(gargs.base, gargs.cand.x, gargs.cand.y, tile)
    /\ num_mirrors = gargs.k - 1
    /\ rng = gargs.cand.rng
\* the pass placed the mirror one coin draw chose
PlacedByCoin ==
    /\ rng = step(gargs.cand.rng)
    /\ num_mirrors = gargs.k - 1
    /\ retvl = with(gargs.base, gargs.cand.x, gargs.cand.y,
                    IF Mod64(rng, 2) = 1 THEN UpMirror ELSE DownMirror)
\* the pass dropped its candidate
Discarded ==
    /\ retvl = gargs.base
    /\ num_mirrors = gargs.k
    /\ rng = gargs.cand.rng

Changed(a, b) == {c \in AllCells : get(a, c[1], c[2]) # get(b, c[1], c[2])}

\* C22: generate writes only interior cells that are Empty when written: the
\* grid differs from the base only in interior cells that are Empty in the
\* base and now hold a diagonal mirror, the spawn list is the base's, and each
\* pass of the loop changes at most one cell, an Empty interior one (so no cell
\* is written twice).
C22_GenerationFrame ==
    /\ [](/\ Changed(retvl, gargs.base) \subseteq Interior
          /\ \A c \in Changed(retvl, gargs.base) :
                /\ get(gargs.base, c[1], c[2]) = Empty
                /\ IsMirror(get(retvl, c[1], c[2]))
          /\ retvl.spawns = gargs.base.spawns)
    /\ [][(gpc = "loop" /\ gpc' = "loop") =>
            /\ Cardinality(Changed(retvl', retvl)) <= 1
            /\ \A c \in Changed(retvl', retvl) :
                  c \in Interior /\ get(retvl, c[1], c[2]) = Empty]_vars

\* C22 witness: generate has returned a grid with three mirrors the base did
\* not have.
C22_Witness ==
    /\ gpc = "done"
    /\ Cardinality(Changed(retvl, gargs.base)) = 3

-----------------------------------------------------------------------------
(* Claims about the passability flags of generate *)

\* the candidate the next pass of the loop draws
NextCandidate == draw_candidate(rng)
\* the pass about to run examines the neighbours of an Empty candidate
FlagsRead ==
    /\ gpc = "loop"
    /\ num_mirrors > 0
    /\ get(retvl, NextCandidate.x, NextCandidate.y) = Empty
\* each flag taken from the neighbour on its own side
OwnSideFlags(map, x, y) ==
    [u |-> bullet_is_passable(get(map, x, y - 1), "Up"),
     d |-> bullet_is_passable(get(map, x, y + 1), "Down"),
     l |-> bullet_is_passable(get(map, x - 1, y), "Left"),
     r |-> bullet_is_passable(get(map, x + 1, y), "Right")]

\* C19: the four flags generate computes for a candidate (x, y) are those of
\* the cells (x, y-1), (x, y+1), (x-1, y) and (x+1, y), each for its own
\* direction.
C19_OwnSideFlags ==
    FlagsRead =>
        flags(retvl, NextCandidate.x, NextCandidate.y)
            = OwnSideFlags(retvl, NextCandidate.x, NextCandidate.y)

\* the static rule: open tiles and diagonal mirrors pass everything, a Block
\* nothing, Horiz tiles Left/Right only, Vert tiles Up/Down only
StaticRule(tile, dir) ==
    CASE tile \in {Empty, UpMirror, DownMirror} -> TRUE
      [] tile = Block -> FALSE
      [] tile \in {HorizMirror, HorizPipe} -> dir \in {"Left", "Right"}
      [] tile \in {VertMirror, VertPipe} -> dir \in {"Up", "Down"}
\* the neighbours a pass looks at, each with the direction it is asked about
Asked(x, y) ==
    { <<x, y - 1, "Up">>, <<x, y + 1, "Down">>, <<x - 1, y, "Left">>, <<x - 1, y, "Right">> }

\* C20: whatever tile a pass of generate finds beside its candidate,
\* bullet_is_passable answers by the static rule: Empty, UpMirror and DownMirror
\* pass in all directions, Block in none, HorizMirror and HorizPipe exactly
\* Left/Right, VertMirror and VertPipe exactly Up/Down.
C20_StaticPassability ==
    FlagsRead =>
        \A q \in Asked(NextCandidate.x, NextCandidate.y) :
            bullet_is_passable(get(retvl, q[1], q[2]), q[3])
                = StaticRule(get(retvl, q[1], q[2]), q[3])

\* the pass of the loop taken in this step wrote a cell
Wrote == Changed(retvl', retvl) # {}
\* the tile a coin draw made from generator g picks, and the generator after it
CoinTile(g) == IF Bit64(step(g), 0) = 1 THEN UpMirror ELSE DownMirror
\* the flags of the cells left and right of (x, y) differ
SidesDiffer(map, x, y) == OwnSideFlags(map, x, y).l # OwnSideFlags(map, x, y).r

\* C34: in generate the left and the right flag of a candidate are always
\* equal, so the match never takes an arm that places an UpMirror or a
\* DownMirror without a draw: every mirror written is the one a coin draw
\* picks, a pass that places a mirror advances the generator three times
\* (x, y, coin) and a pass that discards its candidate twice.
C34_CoinOnly ==
    /\ [](FlagsRead =>
            /\ flags(retvl, NextCandidate.x, NextCandidate.y).l
                  = flags(retvl, NextCandidate.x, NextCandidate.y).r
            /\ classify_flags(flags(retvl, NextCandidate.x, NextCandidate.y))
                  \in {"Coin", "Skip"})
    /\ [][(gpc = "loop" /\ gpc' = "loop") =>
            IF Wrote
            THEN /\ rng' = step(step(step(rng)))
                 /\ Changed(retvl', retvl) = {<<NextCandidate.x, NextCandidate.y>>}
                 /\ get(retvl', NextCandidate.x, NextCandidate.y)
                       = CoinTile(step(step(rng)))
                 /\ num_mirrors' = num_mirrors - 1
            ELSE /\ rng' = step(step(rng))
                 /\ num_mirrors' = num_mirrors]_vars

\* C34 witness: a mirror has been written, and the pass about to run examines
\* an Empty candidate whose left and right neighbours differ in passability
\* and whose own-side flags would pick a mirror without a draw.
C34_Witness ==
    /\ FlagsRead
    /\ Changed(retvl, gargs.base) # {}
    /\ SidesDiffer(retvl, NextCandidate.x, NextCandidate.y)
    /\ classify_flags(OwnSideFlags(retvl, NextCandidate.x, NextCandidate.y))
          \in {"Up", "Down"}

=============================================================================
